---------------------------- MODULE Spec2Model ----------------------------
(***************************************************************************)
(* Model of the project-chat controller of HolaIbotApp (src/main.py) and   *)
(* of the pieces of src/utils.py it drives.                                *)
(*                                                                         *)
(* The controller runs on the Qt GUI thread.  A handler (a slot) runs      *)
(* until it returns, except that _display_agent_message calls              *)
(* QCoreApplication.processEvents() and a modal dialog runs a nested event *)
(* loop: at those points queued events (button clicks, finished signals    *)
(* of workers) are dispatched to their handlers, which run to completion   *)
(* on top of the suspended one.  The model keeps the suspended handlers on *)
(* stack; one step of the model is the code of one handler between two     *)
(* such points.                                                            *)
(*                                                                         *)
(* Texts are sequences of tokens: a model reply is the sequence of its     *)
(* lexical pieces, a prompt the sequence of its characters.                *)
(***************************************************************************)
EXTENDS Integers, Sequences, FiniteSets, TLC

(***************************************************************************)
(* Bounds of the model.                                                    *)
(***************************************************************************)
\* API-mode queries the user starts in one run
MaxQueries == 2
\* handlers suspended at a processEvents() or in a modal dialog
MaxDepth == 2
\* questions the user asks in Show Prompt mode in one run
MaxShow == 1

(***************************************************************************)
(* Texts.                                                                  *)
(***************************************************************************)
\* src/main.py:625, the marker searched in a main-model reply
RateLimitMarker == "API Error (429)"

Whitespace == {" ", "\n"}
\* the code-fence marker of Markdown (three backquotes)
Fence == "<fence>"

\* JSON string literals and the strings they denote
StrToks == {"\"a.py\"", "\"b.py\""}
Unquote(tok) == IF tok = "\"a.py\"" THEN "a.py" ELSE "b.py"
NumToks == {"1"}

RECURSIVE LStrip(_)
LStrip(s) == IF s # <<>> /\ Head(s) \in Whitespace THEN LStrip(Tail(s)) ELSE s

RECURSIVE RStrip(_)
RStrip(s) ==
    IF s # <<>> /\ s[Len(s)] \in Whitespace
    THEN RStrip(SubSeq(s, 1, Len(s) - 1))
    ELSE s

\* str.strip()
Strip(s) == RStrip(LStrip(s))

\* (x in text) for a one-token x
Contains(text, tok) == \E i \in 1..Len(text) : text[i] = tok

(***************************************************************************)
(* json.loads over token sequences.  A value is a record [type, s, items]. *)
(***************************************************************************)
NoVal == [type |-> "none", s |-> "", items |-> <<>>]
StrVal(x) == [type |-> "str", s |-> x, items |-> <<>>]
NumVal == [type |-> "num", s |-> "", items |-> <<>>]
ObjVal == [type |-> "obj", s |-> "", items |-> <<>>]
ListVal(xs) == [type |-> "list", s |-> "", items |-> xs]

ParseFail == [ok |-> FALSE, val |-> NoVal, rest |-> <<>>]
ParseOk(v, r) == [ok |-> TRUE, val |-> v, rest |-> r]

RECURSIVE SkipWs(_)
SkipWs(toks) ==
    IF toks # <<>> /\ Head(toks) \in Whitespace THEN SkipWs(Tail(toks)) ELSE toks

RECURSIVE ParseValue(_), ParseItems(_, _)
\* one JSON value at the head of toks
ParseValue(toks0) ==
    LET toks == SkipWs(toks0) IN
    IF toks = <<>> THEN ParseFail
    ELSE LET h == Head(toks)
             t == SkipWs(Tail(toks)) IN
         CASE h \in StrToks -> ParseOk(StrVal(Unquote(h)), Tail(toks))
           [] h \in NumToks -> ParseOk(NumVal, Tail(toks))
           [] h = "{" -> IF t # <<>> /\ Head(t) = "}"
                         THEN ParseOk(ObjVal, Tail(t))
                         ELSE ParseFail
           [] h = "[" -> IF t # <<>> /\ Head(t) = "]"
                         THEN ParseOk(ListVal(<<>>), Tail(t))
                         ELSE ParseItems(t, <<>>)
           [] OTHER -> ParseFail

\* the items of an array after "[" or ",", up to and including "]"
ParseItems(toks, acc) ==
    LET r == ParseValue(toks) IN
    IF ~r.ok THEN ParseFail
    ELSE LET t == SkipWs(r.rest)
             items == Append(acc, r.val) IN
         IF t = <<>> THEN ParseFail
         ELSE CASE Head(t) = "," -> ParseItems(Tail(t), items)
                [] Head(t) = "]" -> ParseOk(ListVal(items), Tail(t))
                [] OTHER -> ParseFail

\* json.loads(text): the whole text is one value, or the call raises
json_loads(text) ==
    LET r == ParseValue(text) IN
    IF r.ok /\ SkipWs(r.rest) = <<>>
    THEN [ok |-> TRUE, val |-> r.val]
    ELSE [ok |-> FALSE, val |-> NoVal]

\* re.search(r'\[.*\]', text, re.DOTALL): from the first "[" to the last "]"
BracketSpan(text) ==
    LET opens == {i \in 1..Len(text) : text[i] = "["}
        closes == {i \in 1..Len(text) : text[i] = "]"} IN
    IF opens = {} \/ closes = {} THEN <<>>
    ELSE LET i == CHOOSE x \in opens : \A y \in opens : x <= y
             j == CHOOSE x \in closes : \A y \in closes : y <= x IN
         IF i < j THEN SubSeq(text, i, j) ELSE <<>>


(***************************************************************************)
(* on_filter_response, src/main.py:578-589: the parse of a selector reply. *)
(***************************************************************************)
ParseSelector(response) ==
    LET clean_resp == Strip(response)
        span == BracketSpan(clean_resp)
        text == IF Contains(clean_resp, Fence) /\ span # <<>>
                THEN span
                ELSE clean_resp
        r == json_loads(text) IN
    IF r.ok /\ r.val.type = "list"
    THEN [ok |-> TRUE, files |-> r.val.items]
    ELSE [ok |-> FALSE, files |-> <<>>]

Min(a, b) == IF a < b THEN a ELSE b

\* src/main.py:597, ', '.join(relevant_files[:3]) raises TypeError on a
\* non-string item; the statement stands outside every try block
JoinRaises(files) ==
    \E i \in 1..Min(3, Len(files)) : files[i].type # "str"

\* src/utils.py:265, os.path.normpath(f) raises TypeError on a non-string
NormpathRaises(files) ==
    \E i \in 1..Len(files) : files[i].type # "str"

TargetsOf(files) == [i \in 1..Len(files) |-> files[i].s]

\* faulty tests of the marker: only at the start of the reply; any HTTP
\* error status
HasRateLimitAtStart(response) ==
    response # <<>> /\ Head(response) = RateLimitMarker

HasRateLimitAnyStatus(response) ==
    Contains(response, RateLimitMarker) \/ Contains(response, "API Error (500)")

\* "API Error (429)" in response
HasRateLimit(response) == Contains(response, RateLimitMarker)

(***************************************************************************)
(* Reports of the extractor, as far as the controller tells them apart.    *)
(***************************************************************************)
\* the files of the loaded project, in traversal order
ProjectFiles == <<"a.py", "b.py">>

InSeq(x, xs) == \E i \in 1..Len(xs) : xs[i] = x

\* build_context(path, extract_content=False): the structure alone
StructureOnly == <<"FOLDER STRUCTURE:">> \o ProjectFiles

\* build_context(path, extract_content=True)
FullContext ==
    <<"FOLDER STRUCTURE:">> \o ProjectFiles \o <<"FILE CONTENTS:">> \o ProjectFiles

IsTarget(f, targets) == InSeq(f, targets)

\* build_targeted_context(path, targets): the structure and the matched files
TargetedContext(targets) ==
    LET Matched(f) == IsTarget(f, targets) IN
    <<"FOLDER STRUCTURE (Full):">> \o ProjectFiles
        \o <<"SELECTED RELEVANT FILE CONTENTS">> \o SelectSeq(ProjectFiles, Matched)

\* build_system_prompt(specific_context)
build_system_prompt(ctx) == <<"You are an expert coding assistant.">> \o ctx

Msg(role, content) == [role |-> role, content |-> content]

InstructionAll == "Select all files that might be relevant to the user request."
InstructionTop5 ==
    "Select ONLY the top 5 absolute most critical files needed to answer. Be extremely strict."

\* run_mini_filter: the selector prompt
brain_prompt(structure, prompt, aggressive) ==
    <<"You are the Context Optimizer.">> \o structure \o <<"User Request:">>
        \o prompt
        \o <<IF aggressive THEN InstructionTop5 ELSE InstructionAll>>

(***************************************************************************)
(* Inputs.                                                                 *)
(***************************************************************************)
\* the questions of the user, one per query
Questions == <<"q1", "q2", "q3", "q4", "q5">>
Question(n) == IF n <= Len(Questions) THEN Questions[n] ELSE "q"

\* what the user may have typed in promptEdit when n queries were started
PromptInputs(n) == {<<>>, <<" ">>, <<Question(n + 1)>>, <<" ", Question(n + 1), "\n">>}

\* replies of the selector model (gpt4_1_request returns text in all cases)
SelectorReplies ==
    { <<"[", "\"a.py\"", ",", "\"b.py\"", "]">>,
      <<"\n", "[", "\"b.py\"", "]", " ">>,
      <<"I cannot help.">>,
      <<Fence, "json", "\n", "[", "\"b.py\"", "]", "\n", Fence>>,
      <<"Here:", "[", "\"a.py\"", "]">>,
      <<Fence, "no list", Fence>>,
      <<"{", "}">>,
      <<"1">>,
      <<"\"a.py\"">>,
      <<"[", "1", "]">>,
      <<"[", "[", "\"a.py\"", "]", "]">>,
      <<"[", "\"a.py\"", ",", "\"a.py\"", ",", "\"b.py\"", ",", "1", "]">>,
      <<RateLimitMarker, ":", "{", "}">> }

\* replies of the main model
MainReplies ==
    { <<RateLimitMarker, ": Too Many Requests">>,
      <<"The text", RateLimitMarker, "means that the quota is used up.">>,
      <<"API Error (500)", ": Internal Server Error">>,
      <<"API Error: The environment variable 'OPENAI_API_KEY' is not defined.">>,
      <<"Request error: timed out">>,
      <<"Here is the answer.">> }

\* folders the user may pick; "" is a cancelled dialog, and None
ProjectFolders == {"proj"}


(***************************************************************************)
(* Names and paths of the file system, src/utils.py.  A name is the        *)
(* sequence of its characters, so that strip(), lower(), splitext(),       *)
(* normpath() and the order of sorted() are computed and not assumed.      *)
(***************************************************************************)
\* the characters that occur below, in code-point order
Ascii ==
    <<"\n", " ", "+", "-", ".", "/", "1", "A", "B", "C", "D", "E", "F",
      "G", "H", "I", "J", "K", "L", "M", "N", "O", "P", "Q", "R", "S", "T",
      "U", "V", "W", "X", "Y", "Z", "_", "a", "b", "c", "d", "e", "f", "g",
      "h", "i", "j", "k", "l", "m", "n", "o", "p", "q", "r", "s", "t", "u",
      "v", "w", "x", "y", "z">>
Code(c) == CHOOSE i \in 1..Len(Ascii) : Ascii[i] = c

UpperCase ==
    <<"A", "B", "C", "D", "E", "F", "G", "H", "I", "J", "K", "L", "M", "N",
      "O", "P", "Q", "R", "S", "T", "U", "V", "W", "X", "Y", "Z">>
LowerCase ==
    <<"a", "b", "c", "d", "e", "f", "g", "h", "i", "j", "k", "l", "m", "n",
      "o", "p", "q", "r", "s", "t", "u", "v", "w", "x", "y", "z">>

LowerChar(c) ==
    IF \E i \in 1..Len(UpperCase) : UpperCase[i] = c
    THEN LowerCase[CHOOSE i \in 1..Len(UpperCase) : UpperCase[i] = c]
    ELSE c

\* str.lower()
lower(s) == [i \in 1..Len(s) |-> LowerChar(s[i])]

\* a < b for two str: the first differing character decides, a proper
\* prefix is smaller
RECURSIVE StrLess(_, _)
StrLess(a, b) ==
    IF a = <<>> THEN b # <<>>
    ELSE IF b = <<>> THEN FALSE
    ELSE IF Head(a) = Head(b) THEN StrLess(Tail(a), Tail(b))
    ELSE Code(Head(a)) < Code(Head(b))

\* sorted(names), by insertion
RECURSIVE InsertSorted(_, _)
InsertSorted(x, s) ==
    IF s = <<>> THEN <<x>>
    ELSE IF StrLess(Head(s), x) THEN <<Head(s)>> \o InsertSorted(x, Tail(s))
    ELSE <<x>> \o s

\* the names as the file system lists them
AsListed(names) == names

RECURSIVE sorted(_)
sorted(names) ==
    IF names = <<>> THEN <<>> ELSE InsertSorted(Head(names), sorted(Tail(names)))

\* os.path.splitext(path)[1], from the last component of the path: the
\* text from the last dot on, unless only dots precede that dot
LastDot(name) ==
    IF \E i \in 1..Len(name) : name[i] = "."
    THEN CHOOSE i \in 1..Len(name) :
            /\ name[i] = "."
            /\ \A j \in (i + 1)..Len(name) : name[j] # "."
    ELSE 0

splitext(name) ==
    LET d == LastDot(name) IN
    IF d > 0 /\ \E i \in 1..(d - 1) : name[i] # "."
    THEN SubSeq(name, d, Len(name))
    ELSE <<>>

\* s.split("/")
RECURSIVE SplitPath(_)
SplitPath(s) ==
    IF \E i \in 1..Len(s) : s[i] = "/"
    THEN LET k == CHOOSE i \in 1..Len(s) :
                    s[i] = "/" /\ \A j \in 1..(i - 1) : s[j] # "/"
         IN  <<SubSeq(s, 1, k - 1)>> \o SplitPath(SubSeq(s, k + 1, Len(s)))
    ELSE <<s>>

\* "/".join(comps), which is also os.path.join of relative components
RECURSIVE JoinPath(_)
JoinPath(comps) ==
    IF comps = <<>> THEN <<>>
    ELSE IF Len(comps) = 1 THEN comps[1]
    ELSE comps[1] \o <<"/">> \o JoinPath(Tail(comps))

\* the loop of posixpath.normpath over the components
RECURSIVE NormComps(_, _, _)
NormComps(comps, new_comps, initial_slashes) ==
    IF comps = <<>> THEN new_comps
    ELSE LET comp == Head(comps) IN
         IF comp \in {<<>>, <<".">>}
         THEN NormComps(Tail(comps), new_comps, initial_slashes)
         ELSE IF \/ comp # <<".", ".">>
                 \/ (~initial_slashes /\ new_comps = <<>>)
                 \/ (new_comps # <<>> /\ new_comps[Len(new_comps)] = <<".", ".">>)
         THEN NormComps(Tail(comps), Append(new_comps, comp), initial_slashes)
         ELSE IF new_comps # <<>>
         THEN NormComps(Tail(comps), SubSeq(new_comps, 1, Len(new_comps) - 1),
                        initial_slashes)
         ELSE NormComps(Tail(comps), new_comps, initial_slashes)

\* os.path.normpath(path) on a POSIX system, for a path with at most one
\* leading slash
normpath(path) ==
    IF path = <<>> THEN <<".">>
    ELSE LET initial_slashes == (path[1] = "/")
             joined == JoinPath(NormComps(SplitPath(path), <<>>, initial_slashes))
             result == IF initial_slashes THEN <<"/">> \o joined ELSE joined
         IN  IF result = <<>> THEN <<".">> ELSE result

\* len(text.split()): the maximal runs of characters that are not whitespace
RECURSIVE CountWords(_, _)
CountWords(text, inWord) ==
    IF text = <<>> THEN 0
    ELSE IF Head(text) \in Whitespace THEN CountWords(Tail(text), FALSE)
    ELSE (IF inWord THEN 0 ELSE 1) + CountWords(Tail(text), TRUE)

\* text.count("\n")
RECURSIVE CountNewlines(_)
CountNewlines(text) ==
    IF text = <<>> THEN 0
    ELSE (IF Head(text) = "\n" THEN 1 ELSE 0) + CountNewlines(Tail(text))

\* src/utils.py:179-185
DEFAULT_EXCLUSIONS ==
    {<<"v", "e", "n", "v">>, <<"M", "y", "V", "e", "n", "v">>,
      <<".", "v", "e", "n", "v">>, <<"e", "n", "v">>, <<"l", "o", "g">>,
      <<"l", "o", "g", "s">>, <<".", "e", "n", "v">>,
      <<"n", "o", "d", "e", "_", "m", "o", "d", "u", "l", "e", "s">>,
      <<".", "g", "i", "t">>,
      <<"_", "_", "p", "y", "c", "a", "c", "h", "e", "_", "_">>,
      <<".", "m", "y", "p", "y", "_", "c", "a", "c", "h", "e">>,
      <<".", "p", "y", "t", "e", "s", "t", "_", "c", "a", "c", "h", "e">>,
      <<".", "i", "d", "e", "a">>, <<".", "v", "s", "c", "o", "d", "e">>,
      <<".", "D", "S", "_", "S", "t", "o", "r", "e">>,
      <<".", "c", "a", "c", "h", "e">>,
      <<".", "i", "p", "y", "n", "b", "_", "c", "h", "e", "c", "k", "p", "o", "i", "n", "t", "s">>,
      <<".", "h", "i", "s", "t", "o", "r", "y">>, <<".", "s", "v", "n">>,
      <<".", "h", "g">>, <<".", "t", "o", "x">>,
      <<".", "c", "o", "v", "e", "r", "a", "g", "e">>,
      <<".", "g", "i", "t", "i", "g", "n", "o", "r", "e">>,
      <<".", "g", "i", "t", "a", "t", "t", "r", "i", "b", "u", "t", "e", "s">>,
      <<".", "y", "a", "r", "n">>,
      <<".", "p", "a", "r", "c", "e", "l", "-", "c", "a", "c", "h", "e">>,
      <<".", "n", "e", "x", "t">>, <<".", "n", "u", "x", "t">>,
      <<".", "n", "o", "d", "e", "_", "m", "o", "d", "u", "l", "e", "s">>,
      <<".", "d", "i", "s", "t">>}

\* self.extensions of a new extractor, src/utils.py:190-199
DEFAULT_EXTENSIONS ==
    {<<".", "p", "y">>, <<".", "p", "y", "w">>,
      <<".", "i", "p", "y", "n", "b">>, <<".", "t", "x", "t">>,
      <<".", "p", "d", "f">>, <<".", "d", "o", "c", "x">>,
      <<".", "x", "l", "s", "x">>, <<".", "x", "l", "s">>,
      <<".", "j", "s">>, <<".", "j", "s", "x">>, <<".", "t", "s">>,
      <<".", "t", "s", "x">>, <<".", "v", "u", "e">>,
      <<".", "h", "t", "m", "l">>, <<".", "c", "s", "s">>, <<".", "c">>,
      <<".", "h">>, <<".", "h", "p", "p">>, <<".", "h", "h">>,
      <<".", "c", "c">>, <<".", "c", "p", "p">>, <<".", "c", "x", "x">>,
      <<".", "c", "+", "+">>, <<".", "s", "h">>,
      <<".", "b", "a", "s", "h">>, <<".", "z", "s", "h">>,
      <<".", "k", "s", "h">>, <<".", "b", "a", "t">>,
      <<".", "c", "m", "d">>, <<".", "m", "a", "k", "e">>,
      <<".", "m", "k">>, <<"M", "a", "k", "e", "f", "i", "l", "e">>,
      <<".", "j", "a", "v", "a">>, <<".", "g", "o">>, <<".", "r", "s">>,
      <<".", "s", "w", "i", "f", "t">>, <<".", "p", "h", "p">>,
      <<".", "r", "b">>, <<".", "p", "l">>, <<".", "p", "m">>,
      <<".", "s", "c", "a", "l", "a">>, <<".", "k", "t">>,
      <<".", "k", "t", "s">>, <<".", "l", "u", "a">>,
      <<".", "s", "q", "l">>, <<".", "x", "m", "l">>,
      <<".", "y", "m", "l">>, <<".", "y", "a", "m", "l">>,
      <<".", "j", "s", "o", "n">>, <<".", "m", "d">>,
      <<".", "c", "s", "v">>, <<".", "i", "n", "i">>,
      <<".", "c", "f", "g">>, <<".", "c", "o", "n", "f">>,
      <<".", "t", "o", "m", "l">>, <<".", "p", "s", "1">>,
      <<".", "p", "s", "m", "1">>, <<".", "p", "s", "d", "1">>,
      <<".", "c", "m", "a", "k", "e">>,
      <<"C", "M", "a", "k", "e", "L", "i", "s", "t", "s", ".", "t", "x", "t">>,
      <<"D", "o", "c", "k", "e", "r", "f", "i", "l", "e">>,
      <<"d", "o", "c", "k", "e", "r", "f", "i", "l", "e">>,
      <<"V", "a", "g", "r", "a", "n", "t", "f", "i", "l", "e">>,
      <<"P", "r", "o", "c", "f", "i", "l", "e">>}

\* src/utils.py:368-373
supported_text_exts ==
    {<<".", "t", "x", "t">>, <<".", "p", "y">>, <<".", "j", "s">>,
      <<".", "j", "s", "x">>, <<".", "t", "s">>, <<".", "t", "s", "x">>,
      <<".", "v", "u", "e">>, <<".", "h", "t", "m", "l">>,
      <<".", "c", "s", "s">>, <<".", "j", "s", "o", "n">>,
      <<".", "x", "m", "l">>, <<".", "m", "d">>, <<".", "c", "s", "v">>,
      <<".", "l", "o", "g">>, <<".", "i", "n", "i">>,
      <<".", "c", "f", "g">>, <<".", "c", "o", "n", "f">>,
      <<".", "s", "h">>, <<".", "b", "a", "t">>, <<".", "c">>,
      <<".", "c", "p", "p">>, <<".", "h">>, <<".", "j", "a", "v", "a">>,
      <<".", "y", "m", "l">>, <<".", "y", "a", "m", "l">>}

\* src/utils.py:348, 100 * 1024
LargeFileLimit == 102400

\* src/utils.py:306
ZeroStats ==
    [words |-> 0, lines |-> 0, characters |-> 0, tokens |-> 0, size |-> 0]
\* the statistics of a reader have no size
ZeroFileStats == [words |-> 0, lines |-> 0, characters |-> 0, tokens |-> 0]

\* a line of a report: the text it is made with (kind), its indentation
\* level, and what is put into the text
Line(kind, indent) ==
    [kind |-> kind, indent |-> indent, text |-> <<>>, path |-> <<>>,
     values |-> <<>>, unit |-> "", lines |-> <<>>]
\* a line with a name or a text in it
TextLine(kind, indent, text) == [Line(kind, indent) EXCEPT !.text = text]
\* a line with a path in it
PathLine(kind, indent, path) == [Line(kind, indent) EXCEPT !.path = path]
\* a line with numbers in it
ValueLine(kind, values, unit) ==
    [Line(kind, 0) EXCEPT !.values = values, !.unit = unit]
\* several lines joined with "\n" into one entry
Joined(lines) == [Line("joined", 0) EXCEPT !.lines = lines]

(***************************************************************************)
(* Folders given to the extractor.  A directory has the entries that       *)
(* os.listdir returns, in the order in which it returns them; a file has   *)
(* its size in bytes, its decoded text, and for a notebook its cells.      *)
(***************************************************************************)
Dir(name, children) ==
    [name |-> name, kind |-> "dir", openable |-> TRUE, children |-> children]

\* a directory on which os.listdir raises
LockedDir(name) ==
    [name |-> name, kind |-> "dir", openable |-> FALSE, children |-> <<>>]

File(name, size, text) ==
    [name |-> name, kind |-> "file", size |-> size, statable |-> TRUE,
     readable |-> TRUE, text |-> text, cells |-> <<>>]

\* a cell of a notebook with its joined source
Cell(source) == [object |-> TRUE, cell_type |-> "code", source |-> source]
\* a cell that is not a JSON object: cell.get raises AttributeError
BadCell == [object |-> FALSE, cell_type |-> "", source |-> <<>>]

Notebook(name, size, cells) ==
    [name |-> name, kind |-> "file", size |-> size, statable |-> TRUE,
     readable |-> TRUE, text |-> <<>>, cells |-> cells]

\* os.path.getsize raises on it
Unstatable(file) == [file EXCEPT !.statable = FALSE]
\* open, read or json.load raises on it
Unreadable(file) == [file EXCEPT !.readable = FALSE]

\* folder_path of the calls
RootPath == <<<<"p", "r", "o", "j">>>>

\* the project of ProjectFiles
ProjectTree ==
    Dir(<<"p", "r", "o", "j">>,
        <<File(<<"a", ".", "p", "y">>, 4, <<"x", " ", "y", "\n">>),
          File(<<"b", ".", "p", "y">>, 2, <<"z", "\n">>)>>)

(***************************************************************************)
(* State of HolaIbotApp, src/main.py:37-58, and of the Qt objects it owns. *)
(***************************************************************************)
VARIABLES
    chat_history,           \* self.chat_history
    loaded_context,         \* self.loaded_context, "" is <<>>
    loaded_path,            \* self.loaded_path, None is ""
    gpt_worker,             \* self.gpt_worker: the id of the worker, None is 0
    current_query_attempt,  \* self.current_query_attempt
    current_user_prompt,    \* self.current_user_prompt
    is_smart_filtering,     \* self.is_smart_filtering
    askEnabled,             \* askButton.isEnabled()
    ctrlEnabled,            \* select, reload, ext and exclude buttons
    workers,                \* GptWorker threads whose result is not delivered yet;
                            \* an id is the identity of the object and is free
                            \* again once the object is gone
    nQueries,               \* queries started in API mode so far
    nShown,                 \* questions asked in Show Prompt mode so far
    stack,                  \* suspended handlers, the running one last
    crashed,                \* "" while the process runs, else what aborted it
    \* the ProjectContextExtractor, src/utils.py:173-199
    tree,                   \* the directory tree at folder_path
    exclusions,             \* self.exclusions
    extensions,             \* self.extensions
    report,                 \* what the last build_* call returned
    given,                  \* the list of the last set_exclusions call
    \* human_readable_size, src/utils.py:164-170
    humanized,              \* the argument of a call and the text returned
    \* a CodeExecutionWorker, src/utils.py:116-158
    code_worker             \* the thread in run(), and the temporary file

vars ==
    <<chat_history, loaded_context, loaded_path, gpt_worker,
      current_query_attempt, current_user_prompt, is_smart_filtering,
      askEnabled, ctrlEnabled, workers, nQueries, nShown, stack, crashed,
      tree, exclusions, extensions, report, given, humanized, code_worker>>

\* the extractor, and the controller
exVars == <<tree, exclusions, extensions, report, given>>
\* the function and the thread that neither of them holds
utilVars == <<humanized, code_worker>>
appVars ==
    <<chat_history, loaded_context, loaded_path, gpt_worker,
      current_query_attempt, current_user_prompt, is_smart_filtering,
      askEnabled, ctrlEnabled, workers, nQueries, nShown, stack, crashed>>

NoReport ==
    [op |-> "none", extract_content |-> FALSE, result |-> <<>>,
     struct |-> <<>>, cont |-> <<>>, stats |-> ZeroStats, listed |-> <<>>,
     opened |-> <<>>, target_files |-> <<>>, excl |-> {}, exts |-> {}]
\* no set_exclusions call yet
NoCall == [called |-> FALSE, names |-> <<>>]

\* a byte count: mant * 1024^exp
Bytes(mant, exp) == [mant |-> mant, exp |-> exp]

\* human_readable_size has not been called
NotHumanized == [num |-> Bytes(0, 0), called |-> FALSE, text |-> <<>>]

\* a script given to a CodeExecutionWorker: whether its text can be
\* encoded as UTF-8, whether it is longer than the buffer of the file
\* object, and what the interpreter does with it
Script(src, encodable, long, ends, out, err) ==
    [src |-> src, encodable |-> encodable, long |-> long, ends |-> ends,
     out |-> out, err |-> err]

\* the machine: whether a temporary file can be created, whether the disk
\* takes what is written, whether sys.executable can be started
Host(tempdir, space, interpreter) ==
    [tempdir |-> tempdir, space |-> space, interpreter |-> interpreter]

\* CodeExecutionWorker.__init__ and the first lines of run,
\* src/utils.py:123-130; on_disk tells whether the temporary file exists
NewCodeWorker(code_to_execute, host) ==
    [pc |-> "run", code_to_execute |-> code_to_execute, host |-> host,
     stdout |-> "", stderr |-> "", filepath |-> "", on_disk |-> FALSE,
     emitted |-> <<>>]

\* no CodeExecutionWorker has been made
NoCodeWorker ==
    [NewCodeWorker(Script("", TRUE, FALSE, TRUE, "", ""), Host(TRUE, TRUE, TRUE))
        EXCEPT !.pc = "none"]

NewUtils ==
    /\ humanized = NotHumanized
    /\ code_worker = NoCodeWorker

\* ProjectContextExtractor.__init__, src/utils.py:187-199
NewExtractor ==
    /\ exclusions = {}
    /\ extensions = DEFAULT_EXTENSIONS
    /\ report = NoReport
    /\ given = NoCall

\* where a handler is suspended: at the processEvents() of a
\* _display_agent_message call, or in the event loop of a modal dialog
ModalPcs == {"folder_dialog"}

\* The fields q, sent, level and aggr are bookkeeping of the model, not
\* program state: q is the query (the n-th Ask in API mode) whose chain of
\* calls the handler continues, sent counts the calls of the main model that
\* chain has made and remembers the context of the last one, level is the
\* context about to be sent, and aggr tells whether the selector call
\* answered was the aggressive one.
Frame(pc, q, sent) ==
    [pc |-> pc, q |-> q, branch |-> "", msgs |-> <<>>, resp |-> <<>>,
     files |-> <<>>, sent |-> sent, level |-> "", aggr |-> FALSE]

NoneSent == [mains |-> 0, last |-> ""]
Sending(sent, level) == [mains |-> sent.mains + 1, last |-> level]

Top == stack[Len(stack)]
Running(pc) == crashed = "" /\ stack # <<>> /\ Top.pc = pc
Push(f) == stack' = Append(stack, f)
SetTop(f) == stack' = [stack EXCEPT ![Len(stack)] = f]
Pop == stack' = SubSeq(stack, 1, Len(stack) - 1)

\* a queued finished signal can be delivered: the event loop is idle, or a
\* handler is at processEvents() or in a dialog
SignalReady == crashed = "" /\ Len(stack) < MaxDepth

\* a click on the main window can be delivered: as above, and no modal
\* dialog is open
UserReady ==
    /\ crashed = ""
    /\ \A i \in 1..Len(stack) : stack[i].pc \notin ModalPcs

\* GptWorker(messages, model_name); finished.connect(slot); start()
NewId == CHOOSE i \in 1..(Cardinality(workers) + 1) :
             /\ \A w \in workers : w.id # i
             /\ \A j \in 1..(i - 1) : \E w \in workers : w.id = j

StartWorker(model, slot, msgs, q, sent) ==
    /\ gpt_worker' = NewId
    /\ workers' = workers \cup
           {[id |-> NewId, model |-> model, slot |-> slot,
             msgs |-> msgs, q |-> q, sent |-> sent]}

\* a faulty table: the aggressive selection is skipped
StrategyOfSkipsAggressive(attempt) ==
    IF attempt = 1 THEN "smart"
    ELSE IF attempt \in {2, 3} THEN "structure"
    ELSE "fail"

\* execute_smart_query_step, src/main.py:527-545: the branch taken
StrategyOf(attempt) ==
    IF attempt = 1 THEN "smart"
    ELSE IF attempt = 2 THEN "aggressive"
    ELSE IF attempt = 3 THEN "structure"
    ELSE "fail"

\* execute_smart_query_step up to the processEvents() of its message
StepFrame(attempt, q, sent) ==
    [Frame("step_msg", q, sent) EXCEPT !.branch = StrategyOf(attempt)]

\* send_to_worker up to the processEvents() of its message: the messages
\* are built from the history as it is now
SendFrame(context_content, history, q, sent, level) ==
    [Frame("send_msg", q, sent) EXCEPT
        !.msgs = <<Msg("system", build_system_prompt(context_content))>>
                     \o history,
        !.level = level]

\* The process is aborted: nothing of its state is left.
Abort(cause) ==
    /\ crashed' = cause
    /\ chat_history' = <<>>
    /\ loaded_context' = <<>>
    /\ loaded_path' = ""
    /\ gpt_worker' = 0
    /\ current_query_attempt' = 0
    /\ current_user_prompt' = <<>>
    /\ is_smart_filtering' = FALSE
    /\ askEnabled' = FALSE
    /\ ctrlEnabled' = FALSE
    /\ workers' = {}
    /\ nQueries' = 0
    /\ nShown' = 0
    /\ stack' = <<>>

\* HolaIbotApp.__init__, src/main.py:37-58
NewApp ==
    /\ chat_history = <<>>
    /\ loaded_context = <<>>
    /\ loaded_path = ""
    /\ gpt_worker = 0
    /\ current_query_attempt = 0
    /\ current_user_prompt = <<>>
    /\ is_smart_filtering = FALSE
    /\ askEnabled = TRUE
    /\ ctrlEnabled = TRUE
    /\ workers = {}
    /\ nQueries = 0
    /\ nShown = 0
    /\ stack = <<>>
    /\ crashed = ""

Init ==
    /\ NewApp
    /\ tree = ProjectTree
    /\ NewExtractor
    /\ NewUtils

(***************************************************************************)
(* ask_gpt, src/main.py:472-518.  The radio button of the mode is read by  *)
(* the handler; the user sets it freely, so it is an input here.           *)
(***************************************************************************)
ask_gpt(text, show_prompt) ==
    LET prompt == Strip(text) IN
    /\ UserReady /\ Len(stack) < MaxDepth
    /\ askEnabled
    /\ prompt # <<>>
    /\ loaded_context # <<>>
    /\ current_user_prompt' = prompt
    /\ chat_history' = Append(chat_history, Msg("user", prompt))
    /\ IF show_prompt
       THEN /\ nShown < MaxShow
            /\ nShown' = nShown + 1
            /\ Push(Frame("show_msg", 0, NoneSent))
            /\ UNCHANGED <<askEnabled, current_query_attempt, nQueries>>
       ELSE /\ nQueries < MaxQueries
            /\ nQueries' = nQueries + 1
            /\ UNCHANGED nShown
            /\ askEnabled' = FALSE
            /\ current_query_attempt' = 1
            /\ Push(StepFrame(1, nQueries + 1, NoneSent))
    /\ UNCHANGED <<loaded_context, loaded_path, gpt_worker,
                   is_smart_filtering, ctrlEnabled, workers, crashed>>

\* ask_gpt in Show Prompt mode after its message: the full report is built
\* and displayed, nothing is sent
ask_gpt_show ==
    /\ Running("show_msg")
    /\ Pop
    /\ UNCHANGED <<chat_history, loaded_context, loaded_path, gpt_worker,
                   current_query_attempt, current_user_prompt,
                   is_smart_filtering, askEnabled, ctrlEnabled, workers,
                   nQueries, crashed, nShown>>

(***************************************************************************)
(* execute_smart_query_step after its message, src/main.py:529-545, with   *)
(* run_mini_filter, src/main.py:547-572.                                   *)
(***************************************************************************)
run_mini_filter(aggressive) ==
    /\ is_smart_filtering' = TRUE
    /\ StartWorker("gpt-5-mini", "on_filter_response",
                   <<Msg("user", brain_prompt(loaded_context,
                                              current_user_prompt,
                                              aggressive))>>,
                   Top.q, Top.sent)

execute_smart_query_step ==
    /\ Running("step_msg")
    /\ CASE Top.branch \in {"smart", "aggressive"} ->
                /\ run_mini_filter(Top.branch = "aggressive")
                /\ Pop
                /\ UNCHANGED askEnabled
         [] Top.branch = "structure" ->
                /\ is_smart_filtering' = FALSE
                /\ SetTop(SendFrame(loaded_context, chat_history, Top.q,
                                    Top.sent, "structure"))
                /\ UNCHANGED <<askEnabled, gpt_worker, workers>>
         [] OTHER ->
                /\ askEnabled' = TRUE
                /\ Pop
                /\ UNCHANGED <<is_smart_filtering, gpt_worker, workers>>
    /\ UNCHANGED <<chat_history, loaded_context, loaded_path,
                   current_query_attempt, current_user_prompt, ctrlEnabled,
                   nQueries, crashed, nShown>>

\* send_to_worker after its message, src/main.py:616-618
send_to_worker ==
    /\ Running("send_msg")
    /\ StartWorker("gpt-5.1", "on_gpt_response", Top.msgs, Top.q,
                   Sending(Top.sent, Top.level))
    /\ Pop
    /\ UNCHANGED <<chat_history, loaded_context, loaded_path,
                   current_query_attempt, current_user_prompt,
                   is_smart_filtering, askEnabled, ctrlEnabled, nQueries,
                   crashed, nShown>>


\* a faulty slot of the selector: a reply that carries the marker is taken
\* for a rate limit, as on_gpt_response takes it
on_filter_response_inspects_marker(w, response) ==
    LET parsed == ParseSelector(response)
        Continue(frame) ==
            /\ workers' = workers \ {w}
            /\ gpt_worker' = 0
            /\ Push(frame)
            /\ UNCHANGED <<chat_history, loaded_context, loaded_path,
                           current_query_attempt, current_user_prompt,
                           is_smart_filtering, askEnabled, ctrlEnabled,
                           nQueries, nShown, crashed>>
    IN
    /\ SignalReady
    /\ w \in workers /\ w.slot = "on_filter_response"
    /\ IF HasRateLimit(response)
       THEN Continue([Frame("rate_msg", w.q, w.sent) EXCEPT
                         !.resp = response])
       ELSE IF ~parsed.ok
       THEN Continue(Frame("parse_err_msg", w.q, w.sent))
       ELSE IF JoinRaises(parsed.files)
       THEN Abort("TypeError")
       ELSE Continue([Frame("selected_msg", w.q, w.sent) EXCEPT
                         !.files = parsed.files,
                         !.aggr = Contains(w.msgs[1].content,
                                           InstructionTop5)])

(***************************************************************************)
(* on_filter_response, src/main.py:574-604.  The frame of the message      *)
(* "Failed to parse file list" remembers a reply that carries the marker   *)
(* of a rate limit; the program keeps no such record.                      *)
(***************************************************************************)
on_filter_response(w, response) ==
    LET parsed == ParseSelector(response)
        Continue(frame) ==
            /\ workers' = workers \ {w}
            /\ gpt_worker' = 0
            /\ Push(frame)
            /\ UNCHANGED <<chat_history, loaded_context, loaded_path,
                           current_query_attempt, current_user_prompt,
                           is_smart_filtering, askEnabled, ctrlEnabled,
                           nQueries, nShown, crashed>>
    IN
    /\ SignalReady
    /\ w \in workers /\ w.slot = "on_filter_response"
    /\ IF ~parsed.ok
       THEN Continue([Frame("parse_err_msg", w.q, w.sent) EXCEPT
                         !.resp = IF HasRateLimit(response)
                                  THEN response ELSE <<>>])
       ELSE IF JoinRaises(parsed.files)
       THEN \* the TypeError leaves the slot: PyQt aborts the process
            Abort("TypeError")
       ELSE Continue([Frame("selected_msg", w.q, w.sent) EXCEPT
                         !.files = parsed.files,
                         !.aggr = Contains(w.msgs[1].content,
                                           InstructionTop5)])

\* a faulty fallback: the counter is moved to the structure-only attempt
filter_fallback_as_attempt_3 ==
    /\ Running("parse_err_msg")
    /\ is_smart_filtering' = FALSE
    /\ current_query_attempt' = 3
    /\ SetTop(SendFrame(loaded_context, chat_history, Top.q, Top.sent,
                        "structure"))
    /\ UNCHANGED <<chat_history, loaded_context, loaded_path, gpt_worker,
                   current_user_prompt, askEnabled, ctrlEnabled, workers,
                   nQueries, crashed, nShown>>

\* after "Failed to parse file list": send_to_worker(self.loaded_context)
filter_fallback ==
    /\ Running("parse_err_msg")
    /\ is_smart_filtering' = FALSE
    /\ SetTop(SendFrame(loaded_context, chat_history, Top.q, Top.sent,
                        "structure"))
    /\ UNCHANGED <<chat_history, loaded_context, loaded_path, gpt_worker,
                   current_query_attempt, current_user_prompt, askEnabled,
                   ctrlEnabled, workers, nQueries, crashed, nShown>>

\* after "Selected n files": build_targeted_context and send_to_worker, or
\* the except branch and its message
filter_build_context ==
    /\ Running("selected_msg")
    /\ IF NormpathRaises(Top.files)
       THEN /\ SetTop(Frame("ctx_err_msg", Top.q, Top.sent))
            /\ UNCHANGED is_smart_filtering
       ELSE /\ is_smart_filtering' = FALSE
            /\ SetTop(SendFrame(TargetedContext(TargetsOf(Top.files)),
                                chat_history, Top.q, Top.sent,
                                IF Top.aggr THEN "aggressive" ELSE "smart"))
    /\ UNCHANGED <<chat_history, loaded_context, loaded_path, gpt_worker,
                   current_query_attempt, current_user_prompt, askEnabled,
                   ctrlEnabled, workers, nQueries, crashed, nShown>>

\* after "Error building context": askButton.setEnabled(True)
filter_context_error ==
    /\ Running("ctx_err_msg")
    /\ askEnabled' = TRUE
    /\ Pop
    /\ UNCHANGED <<chat_history, loaded_context, loaded_path, gpt_worker,
                   current_query_attempt, current_user_prompt,
                   is_smart_filtering, ctrlEnabled, workers, nQueries, crashed, nShown>>

(***************************************************************************)
(* on_gpt_response, src/main.py:620-642.                                   *)
(***************************************************************************)
on_gpt_response(w, response) ==
    /\ SignalReady
    /\ w \in workers /\ w.slot = "on_gpt_response"
    /\ workers' = workers \ {w}
    /\ gpt_worker' = 0
    /\ IF HasRateLimit(response)
       THEN /\ Push([Frame("rate_msg", w.q, w.sent) EXCEPT
                         !.resp = response])
            /\ UNCHANGED askEnabled
       ELSE /\ askEnabled' = TRUE
            /\ Push([Frame("ok_msg", w.q, w.sent) EXCEPT !.resp = response])
    /\ UNCHANGED <<chat_history, loaded_context, loaded_path,
                   current_query_attempt, current_user_prompt,
                   is_smart_filtering, ctrlEnabled, nQueries,
                   crashed, nShown>>

\* a faulty retry: the question is appended to the history again
gpt_retry_reappends ==
    /\ Running("rate_msg")
    /\ current_query_attempt' = current_query_attempt + 1
    /\ chat_history' = Append(chat_history, Msg("user", current_user_prompt))
    /\ SetTop(StepFrame(current_query_attempt + 1, Top.q, Top.sent))
    /\ UNCHANGED <<loaded_context, loaded_path, gpt_worker,
                   current_user_prompt, is_smart_filtering, askEnabled,
                   ctrlEnabled, workers, nQueries, crashed, nShown>>

\* after "Rate Limit (429) exceeded.": the counter and the next strategy
gpt_retry ==
    /\ Running("rate_msg")
    /\ current_query_attempt' = current_query_attempt + 1
    /\ SetTop(StepFrame(current_query_attempt + 1, Top.q, Top.sent))
    /\ UNCHANGED <<chat_history, loaded_context, loaded_path, gpt_worker,
                   current_user_prompt, is_smart_filtering, askEnabled,
                   ctrlEnabled, workers, nQueries, crashed, nShown>>

\* after "Response received.": the assistant turn
gpt_accept ==
    /\ Running("ok_msg")
    /\ chat_history' = Append(chat_history, Msg("assistant", Top.resp))
    /\ Pop
    /\ UNCHANGED <<loaded_context, loaded_path, gpt_worker,
                   current_query_attempt, current_user_prompt,
                   is_smart_filtering, askEnabled, ctrlEnabled, workers,
                   nQueries, crashed, nShown>>

(***************************************************************************)
(* reload_context, src/main.py:391-423, and the handlers that call it.     *)
(***************************************************************************)
\* reload_context up to its first message: clear_response and
\* set_buttons_enabled(False)
ReloadBegins ==
    /\ chat_history' = <<>>
    /\ ctrlEnabled' = FALSE
    /\ askEnabled' = FALSE

reload_context ==
    /\ UserReady /\ Len(stack) < MaxDepth
    /\ ctrlEnabled
    /\ loaded_path # ""
    /\ ReloadBegins
    /\ Push(Frame("reload_msg1", 0, NoneSent))
    /\ UNCHANGED <<loaded_context, loaded_path, gpt_worker,
                   current_query_attempt, current_user_prompt,
                   is_smart_filtering, workers, nQueries, crashed, nShown>>

\* build_context(self.loaded_path, extract_content=False), then the message
reload_extract ==
    /\ Running("reload_msg1")
    /\ loaded_context' = StructureOnly
    /\ SetTop(Frame("reload_msg2", 0, NoneSent))
    /\ UNCHANGED <<chat_history, loaded_path, gpt_worker,
                   current_query_attempt, current_user_prompt,
                   is_smart_filtering, askEnabled, ctrlEnabled, workers,
                   nQueries, crashed, nShown>>

\* self.chat_history = []; set_buttons_enabled(True)
reload_done ==
    /\ Running("reload_msg2")
    /\ chat_history' = <<>>
    /\ ctrlEnabled' = TRUE
    /\ askEnabled' = TRUE
    /\ Pop
    /\ UNCHANGED <<loaded_context, loaded_path, gpt_worker,
                   current_query_attempt, current_user_prompt,
                   is_smart_filtering, workers, nQueries, crashed, nShown>>

\* select_folder, src/main.py:385-389: the file dialog opens
select_folder ==
    /\ UserReady /\ Len(stack) < MaxDepth
    /\ ctrlEnabled
    /\ Push(Frame("folder_dialog", 0, NoneSent))
    /\ UNCHANGED <<chat_history, loaded_context, loaded_path, gpt_worker,
                   current_query_attempt, current_user_prompt,
                   is_smart_filtering, askEnabled, ctrlEnabled, workers,
                   nQueries, crashed, nShown>>

\* the dialog returns a folder, or "" when cancelled
select_folder_done(folder) ==
    /\ Running("folder_dialog")
    /\ IF folder # ""
       THEN /\ loaded_path' = folder
            /\ ReloadBegins
            /\ SetTop(Frame("reload_msg1", 0, NoneSent))
       ELSE /\ Pop
            /\ UNCHANGED <<loaded_path, chat_history, ctrlEnabled, askEnabled>>
    /\ UNCHANGED <<loaded_context, gpt_worker, current_query_attempt,
                   current_user_prompt, is_smart_filtering, workers, nQueries, crashed, nShown>>

\* clear_response, src/main.py:655-658 (the Clear Chat button)
clear_response ==
    /\ UserReady
    /\ chat_history' = <<>>
    /\ UNCHANGED <<loaded_context, loaded_path, gpt_worker,
                   current_query_attempt, current_user_prompt,
                   is_smart_filtering, askEnabled, ctrlEnabled, workers,
                   nQueries, stack, crashed, nShown>>

(***************************************************************************)
(* self.gpt_worker is the only reference to a GptWorker.  A worker whose   *)
(* reference was overwritten or cleared while its thread runs may be       *)
(* destroyed by the garbage collector, and Qt aborts the process when a    *)
(* running QThread is destroyed (src/main.py:570, 576, 616, 622).  Whether *)
(* that happens before the thread ends is a race: the model allows the     *)
(* abort and the delivery of the result.                                   *)
(***************************************************************************)
worker_destroyed ==
    /\ crashed = ""
    /\ \E w \in workers : w.id # gpt_worker
    /\ Abort("QThread destroyed")

\* the controller's steps; in them the extractor is what its reports above
\* say, and its own state is left alone
Next ==
    \/ \E text \in PromptInputs(nQueries), show \in BOOLEAN : ask_gpt(text, show)
          /\ UNCHANGED <<exVars, utilVars>>
    \/ ask_gpt_show
          /\ UNCHANGED <<exVars, utilVars>>
    \/ execute_smart_query_step
          /\ UNCHANGED <<exVars, utilVars>>
    \/ send_to_worker
          /\ UNCHANGED <<exVars, utilVars>>
    \/ \E w \in workers, r \in SelectorReplies : on_filter_response(w, r)
          /\ UNCHANGED <<exVars, utilVars>>
    \/ filter_fallback
          /\ UNCHANGED <<exVars, utilVars>>
    \/ filter_build_context
          /\ UNCHANGED <<exVars, utilVars>>
    \/ filter_context_error
          /\ UNCHANGED <<exVars, utilVars>>
    \/ \E w \in workers, r \in MainReplies : on_gpt_response(w, r)
          /\ UNCHANGED <<exVars, utilVars>>
    \/ gpt_retry
          /\ UNCHANGED <<exVars, utilVars>>
    \/ gpt_accept
          /\ UNCHANGED <<exVars, utilVars>>
    \/ reload_context
          /\ UNCHANGED <<exVars, utilVars>>
    \/ reload_extract
          /\ UNCHANGED <<exVars, utilVars>>
    \/ reload_done
          /\ UNCHANGED <<exVars, utilVars>>
    \/ select_folder
          /\ UNCHANGED <<exVars, utilVars>>
    \/ \E folder \in ProjectFolders \cup {""} : select_folder_done(folder)
          /\ UNCHANGED <<exVars, utilVars>>
    \/ clear_response
          /\ UNCHANGED <<exVars, utilVars>>
    \/ worker_destroyed
          /\ UNCHANGED <<exVars, utilVars>>

Spec == Init /\ [][Next]_vars

(***************************************************************************)
(* Steps, as the properties below speak of them.  A handler runs in        *)
(* segments that end at a processEvents() call; a step of the model is one *)
(* segment.                                                                *)
(***************************************************************************)
\* the calls started by the step
NewWorkers == workers' \ workers

\* the step begins a segment that ends at the message pc: a handler was
\* dispatched, or the running handler went on
Entered(pc) ==
    /\ crashed' = ""
    /\ stack' # stack
    /\ Len(stack') >= Len(stack)
    /\ stack'[Len(stack')].pc = pc

\* the step is the segment of the running handler after the message pc
Resumed(pc) ==
    /\ crashed = "" /\ crashed' = ""
    /\ stack # <<>> /\ Top.pc = pc
    /\ stack' # stack
    /\ Len(stack') <= Len(stack)

\* the running handler returned in this step
Returned == stack' = SubSeq(stack, 1, Len(stack) - 1)

\* the context of a call of the main model
ContextOf(msgs) == msgs[1]

SystemMsg(ctx) == Msg("system", build_system_prompt(ctx))

\* w is a call of the selector whose prompt carries the instruction
IsSelectorCall(w, instruction) ==
    /\ w.model = "gpt-5-mini"
    /\ w.slot = "on_filter_response"
    /\ Len(w.msgs) = 1
    /\ Contains(w.msgs[1].content, instruction)

IsMainCall(w) == w.model = "gpt-5.1" /\ w.slot = "on_gpt_response"

(***************************************************************************)
(* C1.  The strategy of a step of a query is a function of the attempt     *)
(* number alone: attempt 1 calls the selector asking for all files that    *)
(* might be relevant, attempt 2 calls the selector asking for the top 5    *)
(* files only, attempt 3 calls no selector and sends the structure-only    *)
(* report to the main model, and at attempt 4 or more no model is called,  *)
(* the failure is reported and Ask is enabled again.                       *)
(***************************************************************************)
C1_StrategyIsFunctionOfAttempt ==
    [][ /\ Entered("step_msg") =>
             LET a == current_query_attempt'
                 b == stack'[Len(stack')].branch
             IN /\ a = 1 => b = "smart"
                /\ a = 2 => b = "aggressive"
                /\ a = 3 => b = "structure"
                /\ a >= 4 => b = "fail"
        /\ Resumed("step_msg") /\ Top.branch = "smart" =>
             /\ \E w \in workers' :
                    /\ NewWorkers = {w}
                    /\ IsSelectorCall(w, InstructionAll)
                    /\ ~Contains(w.msgs[1].content, InstructionTop5)
             /\ Returned
        /\ Resumed("step_msg") /\ Top.branch = "aggressive" =>
             /\ \E w \in workers' :
                    /\ NewWorkers = {w}
                    /\ IsSelectorCall(w, InstructionTop5)
                    /\ ~Contains(w.msgs[1].content, InstructionAll)
             /\ Returned
        /\ Resumed("step_msg") /\ Top.branch = "structure" =>
             /\ NewWorkers = {}
             /\ Entered("send_msg")
             /\ ContextOf(stack'[Len(stack')].msgs) = SystemMsg(StructureOnly)
        /\ Resumed("send_msg") =>
             \E w \in workers' :
                /\ NewWorkers = {w}
                /\ IsMainCall(w)
                /\ w.msgs = Top.msgs
        /\ Resumed("step_msg") /\ Top.branch = "fail" =>
             /\ NewWorkers = {}
             /\ workers' = workers
             /\ askEnabled'
             /\ Returned
      ]_vars

\* the third attempt of a query has sent the structure-only report to the
\* main model, after the two selector attempts
C1_Witness ==
    /\ current_query_attempt = 3
    /\ \E w \in workers :
          /\ IsMainCall(w)
          /\ ContextOf(w.msgs) = SystemMsg(StructureOnly)
          /\ w.sent.mains = 3


(***************************************************************************)
(* C2.  A reply of the main model that contains the rate-limit marker      *)
(* raises the attempt number by exactly 1, and the strategy of the new     *)
(* attempt number is executed next; the prompt and the history are left    *)
(* as they are.  The same holds when the rate-limited call was the         *)
(* structure-only fallback sent after a selector parse failure at attempt  *)
(* 1 or 2.                                                                 *)
(***************************************************************************)
C2_RateLimitEscalates ==
    [][ /\ Entered("ok_msg") =>
             ~Contains(stack'[Len(stack')].resp, RateLimitMarker)
        /\ Entered("rate_msg") =>
             /\ NewWorkers = {}
             /\ UNCHANGED <<current_query_attempt, current_user_prompt,
                            chat_history>>
        /\ Resumed("rate_msg") =>
             LET a == current_query_attempt
                 next == stack'[Len(stack')]
             IN /\ current_query_attempt' = a + 1
                /\ UNCHANGED <<current_user_prompt, chat_history>>
                /\ NewWorkers = {}
                /\ Entered("step_msg")
                /\ next.q = Top.q
                /\ a = 1 => next.branch = "aggressive"
                /\ a = 2 => next.branch = "structure"
                /\ a >= 3 => next.branch = "fail"
      ]_vars

\* the only query was at attempt 1 when its selector reply failed to parse;
\* the structure-only fallback was rate limited, and the aggressive
\* selection of attempt 2 is next
C2_Witness ==
    /\ nQueries = 1
    /\ Running("step_msg")
    /\ Top.sent = [mains |-> 1, last |-> "structure"]
    /\ current_query_attempt = 2
    /\ Top.branch = "aggressive"

(***************************************************************************)
(* C3.  Within one query, after three rate-limited replies of the main     *)
(* model the query fails for good, and no query ever makes a fourth call   *)
(* of the main model.                                                      *)
(***************************************************************************)
C3_NoFourthMainCall ==
    \A w \in workers : IsMainCall(w) => w.sent.mains <= 3

(***************************************************************************)
(* C4.  A reply of the main model without the rate-limit marker (a normal  *)
(* answer, another API error, the missing-key error, a network error) is   *)
(* accepted: Ask is enabled again, the reply is appended to the history as *)
(* exactly one assistant turn, the attempt number stays, no model call     *)
(* follows for the query and the handler returns.                          *)
(***************************************************************************)
C4_OtherRepliesAreAccepted ==
    [][ /\ Entered("rate_msg") =>
             Contains(stack'[Len(stack')].resp, RateLimitMarker)
        /\ Entered("ok_msg") =>
             /\ askEnabled'
             /\ NewWorkers = {}
             /\ UNCHANGED <<current_query_attempt, chat_history>>
        /\ Resumed("ok_msg") =>
             /\ chat_history' =
                    Append(chat_history, Msg("assistant", Top.resp))
             /\ UNCHANGED current_query_attempt
             /\ NewWorkers = {}
             /\ Returned
             /\ \A w \in workers' : w.q # Top.q
             /\ \A i \in 1..Len(stack') : stack'[i].q # Top.q
      ]_vars

\* a network error was appended as the assistant turn of the only query,
\* which is over with Ask enabled
C4_Witness ==
    /\ nQueries = 1 /\ current_query_attempt = 1
    /\ stack = <<>> /\ workers = {}
    /\ askEnabled
    /\ chat_history = <<Msg("user", <<"q1">>),
                        Msg("assistant", <<"Request error: timed out">>)>>

(***************************************************************************)
(* C5.  A selector reply that cannot be parsed, such as "I cannot help.",  *)
(* leaves the attempt number as it is, is followed by no second selector   *)
(* call and by no targeted extraction, and the next call of the query is   *)
(* a call of the main model with the structure-only report.                *)
(***************************************************************************)
C5_ParseFailureFallsBack ==
    [][ /\ Entered("parse_err_msg") =>
             /\ ~ParseSelector(<<"I cannot help.">>).ok
             /\ NewWorkers = {}
             /\ UNCHANGED <<current_query_attempt, chat_history>>
        /\ Resumed("parse_err_msg") =>
             LET next == stack'[Len(stack')]
             IN /\ UNCHANGED current_query_attempt
                /\ NewWorkers = {}
                /\ Entered("send_msg")
                /\ next.q = Top.q
                /\ next.level = "structure"
                /\ ContextOf(next.msgs) = SystemMsg(StructureOnly)
        /\ Resumed("send_msg") /\ Top.level = "structure" =>
             \E w \in workers' :
                /\ NewWorkers = {w}
                /\ IsMainCall(w)
                /\ w.q = Top.q
                /\ ContextOf(w.msgs) = SystemMsg(StructureOnly)
      ]_vars

\* the first selector reply of the only query failed to parse: the
\* structure-only report is with the main model at attempt 1
C5_Witness ==
    /\ nQueries = 1 /\ current_query_attempt = 1
    /\ \E w \in workers :
          /\ IsMainCall(w)
          /\ w.sent = [mains |-> 1, last |-> "structure"]
          /\ ContextOf(w.msgs) = SystemMsg(StructureOnly)

(***************************************************************************)
(* C6.  Only a selector reply that parses to a list whose items are all    *)
(* strings is accepted as the set of target files; every other shape, a    *)
(* list with a non-string item included, takes the parse-failure fallback. *)
(***************************************************************************)
C6_OnlyListsOfStringsAccepted ==
    /\ crashed # "TypeError"
    /\ \A i \in 1..Len(stack) :
          stack[i].pc = "selected_msg" =>
              \A k \in 1..Len(stack[i].files) : stack[i].files[k].type = "str"

(***************************************************************************)
(* C7.  The contexts a query sends to the main model grow strictly more    *)
(* restrictive: none after a structure-only one comes from a selector, no  *)
(* selector is called after the structure-only context was sent, no smart  *)
(* selection follows an aggressive one, and no level is sent twice.        *)
(***************************************************************************)
Rank(level) ==
    CASE level = "" -> 0
      [] level = "smart" -> 1
      [] level = "aggressive" -> 2
      [] level = "structure" -> 3

C7_StrictlyMoreRestrictive ==
    /\ \A i \in 1..Len(stack) :
          stack[i].pc = "send_msg" =>
              Rank(stack[i].level) > Rank(stack[i].sent.last)
    /\ \A w \in workers :
          w.model = "gpt-5-mini" => w.sent.last # "structure"

(***************************************************************************)
(* C8.  At most one call of the project chat, selector or main model, is   *)
(* in flight at any time.                                                  *)
(***************************************************************************)
C8_AtMostOneCallInFlight == Cardinality(workers) <= 1

(***************************************************************************)
(* C9.  The result of a call that belongs to an earlier query than the     *)
(* last one started is orphaned: handling it changes neither the history   *)
(* nor the attempt number and starts no model call.                        *)
(***************************************************************************)
\* the running handler handles the result of a call
HandlesResult ==
    \/ Top.pc \in {"parse_err_msg", "selected_msg", "ctx_err_msg",
                    "rate_msg", "ok_msg", "send_msg"}
    \/ Top.pc = "step_msg" /\ Top.sent.mains >= 1

C9_EarlierResultIsOrphaned ==
    [][ /\ crashed = "" /\ crashed' = ""
        /\ stack # <<>>
        /\ Top.q >= 1 /\ Top.q < nQueries
        /\ HandlesResult
        /\ stack' # stack /\ Len(stack') <= Len(stack)
        => /\ UNCHANGED <<chat_history, current_query_attempt>>
           /\ NewWorkers = {}
      ]_vars

(***************************************************************************)
(* C10.  The history only grows, one message at a time: a question by Ask, *)
(* an assistant turn by an accepted reply.  It is emptied by a reload and  *)
(* by Clear Chat only, and no step of an escalation appends to it.         *)
(***************************************************************************)
C10_HistoryAppendOnly ==
    [][ crashed' = "" =>
        /\ \/ chat_history' = chat_history
           \/ /\ chat_history' = <<>>
              /\ \/ Entered("reload_msg1")
                 \/ Resumed("reload_msg2")
                 \/ stack' = stack
           \/ /\ Entered("step_msg") \/ Entered("show_msg")
              /\ Len(stack') = Len(stack) + 1
              /\ chat_history' =
                     Append(chat_history, Msg("user", current_user_prompt'))
           \/ /\ Resumed("ok_msg")
              /\ chat_history' =
                     Append(chat_history, Msg("assistant", Top.resp))
        /\ \/ chat_history' = chat_history
           \/ ~ \/ Entered("rate_msg") \/ Resumed("rate_msg")
                \/ Resumed("step_msg") \/ Resumed("send_msg")
                \/ Entered("parse_err_msg") \/ Resumed("parse_err_msg")
                \/ Entered("selected_msg") \/ Resumed("selected_msg")
                \/ Resumed("ctx_err_msg")
      ]_vars

\* the only query was answered at its second attempt: the history is the
\* question and the answer, nothing from the retry
C10_Witness ==
    /\ nQueries = 1 /\ current_query_attempt = 2
    /\ stack = <<>>
    /\ chat_history = <<Msg("user", <<"q1">>),
                        Msg("assistant", <<"Here is the answer.">>)>>

(***************************************************************************)
(* ProjectContextExtractor, src/utils.py:164-472.  A path is the sequence  *)
(* of its components.                                                      *)
(***************************************************************************)
\* n / d rounded to the nearest integer, a tie to the even one: the
\* rounding of the format "{:.1f}" on a value that a float holds exactly
RoundHalfEven(n, d) ==
    LET quot == n \div d
        rem == n % d
    IN  IF 2 * rem > d \/ (2 * rem = d /\ quot % 2 = 1) THEN quot + 1 ELSE quot

\* 1024^e
RECURSIVE Pow1024(_)
Pow1024(e) == IF e = 0 THEN 1 ELSE 1024 * Pow1024(e - 1)

\* a loop that takes 1024 of a unit for less than 1024
RECURSIVE HumanLoopInclusive(_, _, _, _)
HumanLoopInclusive(n, e, d, units) ==
    IF units = <<>>
    THEN [tenths |-> RoundHalfEven(10 * n * Pow1024(e), d), unit |-> "PB"]
    ELSE IF n = 0 \/ (e = 0 /\ n <= 1024 * d)
    THEN [tenths |-> RoundHalfEven(10 * n, d), unit |-> Head(units)]
    ELSE IF e > 0 THEN HumanLoopInclusive(n, e - 1, d, Tail(units))
    ELSE HumanLoopInclusive(n, 0, 1024 * d, Tail(units))

\* the loop of human_readable_size, src/utils.py:166-170, on
\* num = n * 1024^e / d, where e = 0 or d = 1: a division by 1024.0 takes
\* one from e while there is one to take, and multiplies d after that, so
\* that the value is held exactly, as the float holds it
RECURSIVE HumanLoop(_, _, _, _)
HumanLoop(n, e, d, units) ==
    IF units = <<>>
    THEN [tenths |-> RoundHalfEven(10 * n * Pow1024(e), d), unit |-> "PB"]
    ELSE IF n = 0 \/ (e = 0 /\ n < 1024 * d)
    THEN [tenths |-> RoundHalfEven(10 * n, d), unit |-> Head(units)]
    ELSE IF e > 0 THEN HumanLoop(n, e - 1, d, Tail(units))
    ELSE HumanLoop(n, 0, 1024 * d, Tail(units))

\* src/utils.py:164-170 on num = Bytes(mant, exp); the number of the text
\* "1.5 KB" is [tenths |-> 15, unit |-> "KB"]
human_readable_size(num) ==
    HumanLoop(num.mant, num.exp, 1, <<"B", "KB", "MB", "GB", "TB">>)

\* the decimal digits of a natural number
RECURSIVE Decimal(_)
Decimal(n) ==
    LET digit == <<"0", "1", "2", "3", "4", "5", "6", "7", "8", "9">>[(n % 10) + 1]
    IN  IF n < 10 THEN <<digit>> ELSE Append(Decimal(n \div 10), digit)

UnitText ==
    [B |-> <<"B">>, KB |-> <<"K", "B">>, MB |-> <<"M", "B">>,
     GB |-> <<"G", "B">>, TB |-> <<"T", "B">>, PB |-> <<"P", "B">>]

\* f"{num:3.1f} {unit}", src/utils.py:168 and 170: the text of a number
\* of tenths with its unit; it has three characters at least before the
\* blank, so the width of the format adds nothing
SizeText(size) ==
    Decimal(size.tenths \div 10) \o <<".">> \o Decimal(size.tenths % 10)
        \o <<" ">> \o UnitText[size.unit]

\* an assignment in the place of the addition
AddStatsOverwrites(stats, other) ==
    [key \in DOMAIN stats |->
        IF key \in DOMAIN other THEN other[key] ELSE stats[key]]

\* for key in stats: if key in other: stats[key] += other[key]
AddStats(stats, other) ==
    [key \in DOMAIN stats |->
        IF key \in DOMAIN other THEN stats[key] + other[key] ELSE stats[key]]

\* set_extensions, src/utils.py:201-210: the value of self.extensions after
\* the call
RECURSIVE set_extensions_loop(_, _)
set_extensions_loop(extension_list, acc) ==
    IF extension_list = <<>> THEN acc
    ELSE LET e == lower(Strip(Head(extension_list)))
             dotted == IF e[1] # "." THEN <<".">> \o e ELSE e
         IN  IF e = <<>>
             THEN set_extensions_loop(Tail(extension_list), acc)
             ELSE set_extensions_loop(Tail(extension_list), acc \cup {dotted})

\* a setter without the reset of src/utils.py:203
SetExtensionsAdds(extension_list) ==
    set_extensions_loop(extension_list, extensions)

SetExtensions(extension_list) == set_extensions_loop(extension_list, {})

\* a setter that adds to what is there
SetExclusionsKeeps(names) ==
    exclusions \cup DEFAULT_EXCLUSIONS \cup
        {Strip(names[i]) : i \in {j \in 1..Len(names) : Strip(names[j]) # <<>>}}

\* set_exclusions, src/utils.py:212-215: the value of self.exclusions after
\* the call
SetExclusions(names) ==
    DEFAULT_EXCLUSIONS \cup
        {Strip(names[i]) : i \in {j \in 1..Len(names) : Strip(names[j]) # <<>>}}

\* src/utils.py:228 and 255
WithDefaults(excl) == DEFAULT_EXCLUSIONS \cup excl

\* a count of tokens from the length of the text, four characters a token
TokensFromLength(text) == (Len(text) + 3) \div 4

\* stats['tokens'], src/utils.py:383 and 468: len(text.split())
TokensOf(text) == CountWords(text, FALSE)

\* the loop of extract_ipynb_content, src/utils.py:454-468, from cell i on;
\* failed when a cell raised, and the loop ended there
RECURSIVE ReadCells(_, _, _, _)
ReadCells(cells, i, indent, acc) ==
    IF i > Len(cells) THEN [acc EXCEPT !.failed = FALSE]
    ELSE IF ~cells[i].object THEN [acc EXCEPT !.failed = TRUE]
    ELSE LET cell_text == cells[i].source IN
         ReadCells(cells, i + 1, indent,
            [acc EXCEPT
                !.lines = @ \o
                    <<[Line("Cell {i+1} [{cell_type}]:", indent) EXCEPT
                            !.values = <<i>>, !.unit = cells[i].cell_type],
                      TextLine("{cell_text}", indent, cell_text)>>,
                !.stats = [words |-> @.words + CountWords(cell_text, FALSE),
                           lines |-> @.lines + CountNewlines(cell_text) + 1,
                           characters |-> @.characters + Len(cell_text),
                           tokens |-> @.tokens + TokensOf(cell_text)]])

\* src/utils.py:443-472
extract_ipynb_content(file, indent) ==
    LET start == [lines |-> <<Line("[Jupyter Notebook]", indent)>>,
                  stats |-> ZeroFileStats, failed |-> FALSE]
        read == IF file.readable
                THEN ReadCells(file.cells, 1, indent, start)
                ELSE [start EXCEPT !.failed = TRUE]
    IN  [content |-> Joined(IF read.failed
                            THEN Append(read.lines,
                                        Line("[Error reading ipynb: {e}]", indent))
                            ELSE read.lines),
         stats |-> read.stats]

\* src/utils.py:361-401.  Spreadsheets and Word documents are read with
\* third-party libraries; they get the reply of a build without them.
extract_file_content(file, indent) ==
    LET ext == lower(splitext(file.name)) IN
    IF ext \in supported_text_exts
    THEN IF file.readable
         THEN [content |-> Joined(<<Line("Content:", indent),
                                    TextLine("{file_content}", 0, file.text)>>),
               stats |-> [words |-> CountWords(file.text, FALSE),
                          lines |-> CountNewlines(file.text),
                          characters |-> Len(file.text),
                          tokens |-> TokensOf(file.text)]]
         ELSE [content |-> Line("[Error reading text file: {e}]", indent),
               stats |-> ZeroFileStats]
    ELSE IF ext \in {<<".", "x", "l", "s", "x">>, <<".", "x", "l", "s">>}
    THEN [content |-> Joined(<<Line("[Excel library not installed or unknown format]",
                                    indent)>>),
          stats |-> ZeroFileStats]
    ELSE IF ext = <<".", "i", "p", "y", "n", "b">>
    THEN extract_ipynb_content(file, indent)
    ELSE IF ext = <<".", "d", "o", "c", "x">>
    THEN [content |-> Line("[python-docx not installed]", indent),
          stats |-> ZeroFileStats]
    ELSE IF ext = <<".", "p", "d", "f">>
    THEN [content |-> Line("[PDF file (content not extracted)]", indent),
          stats |-> ZeroFileStats]
    ELSE [content |-> Line("[Binary or unsupported file]", indent),
          stats |-> ZeroFileStats]

\* what one traversal returns: the structure lines, the content entries and
\* the statistics, and with them the item_path of every entry that got a
\* structure line and of every file handed to extract_file_content
NoOutput ==
    [struct |-> <<>>, cont |-> <<>>, stats |-> ZeroStats,
     listed |-> <<>>, opened |-> <<>>]

Child(dir, item) ==
    dir.children[CHOOSE i \in 1..Len(dir.children) : dir.children[i].name = item]

\* os.listdir(folder_path)
listdir(dir) == [i \in 1..Len(dir.children) |-> dir.children[i].name]

\* a test that forgets the baseline
ExcludedUserOnly(item, excl) == item \in excl \ DEFAULT_EXCLUSIONS

\* src/utils.py:314
Excluded(item, excl) == item \in excl

\* a test on the extension as it is spelled
AllowedAsSpelled(item, exts) == splitext(item) \in exts

\* src/utils.py:333-334
Allowed(item, exts) == lower(splitext(item)) \in exts

\* a limit that the size must stay below
TooLargeFromLimit(file_size) == file_size >= LargeFileLimit

\* src/utils.py:348
TooLarge(file_size) == file_size > LargeFileLimit

\* the file branch of the loop, src/utils.py:333-357
ProcessFile(file, item_path, indent_level, extract_content, exts) ==
    LET header == PathLine("\nFile: {item_path}", indent_level, item_path)
        line == [NoOutput EXCEPT
                    !.struct = <<TextLine("{item}", indent_level, file.name)>>,
                    !.listed = <<item_path>>]
    IN  IF ~Allowed(file.name, exts) THEN NoOutput
        ELSE IF ~extract_content THEN line
        ELSE IF ~file.statable
        THEN [line EXCEPT
                !.cont = <<header, Line("[Error reading file: {e}]", indent_level)>>]
        ELSE IF TooLarge(file.size)
        THEN [line EXCEPT
                !.cont = <<header, Line("[File too large to display]", indent_level)>>,
                !.stats = [ZeroStats EXCEPT !.size = file.size]]
        ELSE LET read == extract_file_content(file, indent_level) IN
             [line EXCEPT
                !.cont = <<header, read.content>>,
                !.stats = AddStats([ZeroStats EXCEPT !.size = file.size],
                                   read.stats),
                !.opened = <<item_path>>]

\* the body of the loop appends to the lists and adds to the counters
Accumulate(out, more) ==
    [struct |-> out.struct \o more.struct,
     cont |-> out.cont \o more.cont,
     stats |-> AddStats(out.stats, more.stats),
     listed |-> out.listed \o more.listed,
     opened |-> out.opened \o more.opened]

\* a failure of os.listdir that leaves no line
CannotOpenSilent(indent_level) == NoOutput

\* src/utils.py:310-311: what the traversal returns for a directory on
\* which os.listdir raises
CannotOpen(indent_level) ==
    [NoOutput EXCEPT !.struct = <<Line("[Cannot open: {ex}]", indent_level)>>]

RECURSIVE get_folder_structure_and_content(_, _, _, _, _, _)
RECURSIVE TraverseItems(_, _, _, _, _, _, _)

\* the loop of src/utils.py:313-357 over the items that are left
TraverseItems(dir, items, folder_path, indent_level, extract_content, excl, exts) ==
    IF items = <<>> THEN NoOutput
    ELSE LET item == Head(items)
             entry == Child(dir, item)
             item_path == Append(folder_path, item)
             rest == TraverseItems(dir, Tail(items), folder_path, indent_level,
                                   extract_content, excl, exts)
         IN  IF Excluded(item, excl) THEN rest
             ELSE IF entry.kind = "dir"
             THEN LET sub == get_folder_structure_and_content(
                                entry, item_path, indent_level + 1,
                                extract_content, excl, exts)
                      line == [NoOutput EXCEPT
                                 !.struct = <<TextLine("{item}/", indent_level, item)>>,
                                 !.listed = <<item_path>>]
                  IN  Accumulate(Accumulate(line, sub), rest)
             ELSE Accumulate(ProcessFile(entry, item_path, indent_level,
                                         extract_content, exts),
                             rest)

\* src/utils.py:302-359
get_folder_structure_and_content(dir, folder_path, indent_level, extract_content, excl, exts) ==
    IF ~dir.openable THEN CannotOpen(indent_level)
    ELSE TraverseItems(dir, sorted(listdir(dir)), folder_path, indent_level,
                       extract_content, excl, exts)

Separator == Line("\n######################################\n", 0)

\* build_context, src/utils.py:217-248: the lines of the text returned,
\* before "\n".join, then what the traversal returned, and the arguments
\* and the two sets the call worked with
BuildContext(root, extract_content, excl, exts) ==
    LET out == get_folder_structure_and_content(root, RootPath, 0,
                                                extract_content, excl, exts)
    IN  [op |-> "build_context",
         extract_content |-> extract_content,
         result |->
            <<Line("FOLDER STRUCTURE:", 0)>> \o out.struct \o
            (IF extract_content
             THEN <<Separator, Line("FILE CONTENTS:", 0)>> \o out.cont \o
                  <<Separator,
                    ValueLine("Statistics: {words} words, {lines} lines, {characters} chars, ~{tokens} tokens. Size: {size}",
                              <<out.stats.words, out.stats.lines,
                                out.stats.characters, out.stats.tokens,
                                human_readable_size(Bytes(out.stats.size, 0)).tenths>>,
                              human_readable_size(Bytes(out.stats.size, 0)).unit)>>
             ELSE <<>>),
         struct |-> out.struct,
         cont |-> out.cont,
         stats |-> out.stats,
         listed |-> out.listed,
         opened |-> out.opened,
         target_files |-> <<>>,
         excl |-> excl,
         exts |-> exts]

\* src/utils.py:265
CleanTargets(target_files) ==
    {lower(normpath(target_files[i])) : i \in 1..Len(target_files)}

\* a comparison of the names as they are spelled
MatchesAsSpelled(rel, file_name, clean_targets) ==
    \/ normpath(JoinPath(rel)) \in clean_targets
    \/ file_name \in clean_targets

\* src/utils.py:279-280
Matches(rel, file_name, clean_targets) ==
    \/ lower(normpath(JoinPath(rel))) \in clean_targets
    \/ lower(file_name) \in clean_targets

RECURSIVE WalkFiles(_, _, _, _, _)
RECURSIVE WalkDirs(_, _, _, _, _)

\* the inner loop of src/utils.py:271-289 over the entries of one directory
\* that are files, in the order of the listing; rel is the directory's path
\* relative to folder_path
WalkFiles(dir, i, rel, excl, clean_targets) ==
    IF i > Len(dir.children) THEN NoOutput
    ELSE LET entry == dir.children[i]
             rel_path == Append(rel, entry.name)
             rest == WalkFiles(dir, i + 1, rel, excl, clean_targets)
         IN  IF entry.kind = "dir" \/ entry.name \in excl THEN rest
             ELSE IF Matches(rel_path, entry.name, clean_targets)
             THEN LET read == extract_file_content(entry, 1) IN
                  Accumulate([NoOutput EXCEPT
                                !.cont = <<PathLine("\nFile: {rel_path}", 0, rel_path),
                                           read.content>>,
                                !.stats = AddStats(ZeroStats, read.stats),
                                !.opened = <<RootPath \o rel_path>>],
                             rest)
             ELSE rest

\* os.walk, src/utils.py:267-269: the files of a directory, then the
\* directories that are left after the exclusions; a directory that cannot
\* be listed is passed over in silence
WalkDirs(dir, i, rel, excl, clean_targets) ==
    IF i > Len(dir.children) THEN NoOutput
    ELSE LET entry == dir.children[i]
             rest == WalkDirs(dir, i + 1, rel, excl, clean_targets)
         IN  IF entry.kind # "dir" \/ entry.name \in excl \/ ~entry.openable
             THEN rest
             ELSE Accumulate(
                    Accumulate(
                        WalkFiles(entry, 1, Append(rel, entry.name), excl,
                                  clean_targets),
                        WalkDirs(entry, 1, Append(rel, entry.name), excl,
                                 clean_targets)),
                    rest)

Walk(root, excl, clean_targets) ==
    IF ~root.openable THEN NoOutput
    ELSE Accumulate(WalkFiles(root, 1, <<>>, excl, clean_targets),
                    WalkDirs(root, 1, <<>>, excl, clean_targets))

\* build_targeted_context, src/utils.py:250-300
BuildTargetedContext(root, target_files, excl, exts) ==
    LET out == get_folder_structure_and_content(root, RootPath, 0, FALSE,
                                                excl, exts)
        sel == Walk(root, excl, CleanTargets(target_files))
    IN  [op |-> "build_targeted_context",
         extract_content |-> FALSE,
         result |->
            <<Line("FOLDER STRUCTURE (Full):", 0)>> \o out.struct \o
            <<Separator,
              ValueLine("SELECTED RELEVANT FILE CONTENTS ({n} files):",
                        <<Len(sel.cont) \div 2>>, "")>> \o
            sel.cont \o
            <<Separator,
              ValueLine("Targeted Stats: ~{tokens} tokens.",
                        <<sel.stats.tokens>>, "")>>,
         struct |-> out.struct,
         cont |-> sel.cont,
         stats |-> sel.stats,
         listed |-> out.listed,
         opened |-> sel.opened,
         target_files |-> target_files,
         excl |-> excl,
         exts |-> exts]

(***************************************************************************)
(* The folders, and the lists given to the extractor's operations.         *)
(***************************************************************************)
\* entries with excluded names, and files with and without an allowed
\* extension
TreeExcluded ==
    Dir(<<"p", "r", "o", "j">>,
        <<Dir(<<"t", "m", "p">>,
              <<File(<<"c", ".", "p", "y">>, 1, <<"c">>)>>),
          Dir(<<"e", "n", "v">>,
              <<File(<<"a", ".", "p", "y">>, 4, <<"x", " ", "y", "\n">>)>>),
          File(<<".", "e", "n", "v">>, 5, <<"k", "=", "v", "\n">>),
          File(<<"x", ".", "b", "i", "n">>, 7, <<>>),
          File(<<"a", ".", "p", "y">>, 4, <<"x", " ", "y", "\n">>),
          File(<<"B", ".", "P", "Y">>, 2, <<"z", "\n">>),
          File(<<"M", "a", "k", "e", "f", "i", "l", "e">>, 3, <<"a", "l", "l">>)>>)

\* directories in directories, listed out of order
TreeNested ==
    Dir(<<"p", "r", "o", "j">>,
        <<Dir(<<"S", "u", "b">>,
              <<File(<<"b", ".", "p", "y">>, 2, <<"z", "\n">>),
                Dir(<<"i", "n">>,
                    <<File(<<"d", ".", "t", "x", "t">>, 6, <<"p", " ", "q", "\n", "r", "\n">>)>>),
                File(<<"a", ".", "p", "y">>, 4, <<"x", " ", "y", "\n">>)>>),
          File(<<"a", ".", "p", "y">>, 3, <<"w", " ", "w">>)>>)

\* files at and above the size limit
TreeSizes ==
    Dir(<<"p", "r", "o", "j">>,
        <<File(<<"b", "i", "g", ".", "t", "x", "t">>, 102401, <<"b">>),
          File(<<"e", "d", "g", "e", ".", "t", "x", "t">>, 102400, <<"e", " ", "f">>),
          File(<<"h", "u", "g", "e", ".", "b", "i", "n">>, 204800, <<>>),
          File(<<"s", ".", "p", "y">>, 2, <<"s", "\n">>)>>)

\* a directory that cannot be listed, a file that cannot be measured and
\* one that cannot be read
TreeErrors ==
    Dir(<<"p", "r", "o", "j">>,
        <<LockedDir(<<"l", "o", "c", "k", "e", "d">>),
          Unstatable(File(<<"n", "o", "s", "t", "a", "t", ".", "p", "y">>, 0, <<>>)),
          Unreadable(File(<<"n", "o", "r", "e", "a", "d", ".", "p", "y">>, 4, <<>>)),
          Dir(<<"s", "u", "b">>,
              <<LockedDir(<<"l", "o", "c", "k", "e", "d">>),
                File(<<"a", ".", "p", "y">>, 4, <<"x", " ", "y", "\n">>)>>),
          File(<<"z", ".", "t", "x", "t">>, 2, <<"z", "\n">>)>>)

\* notebooks: one that fails at its second cell, a sound one, one that
\* is not JSON
TreeNotebooks ==
    Dir(<<"p", "r", "o", "j">>,
        <<Notebook(<<"n", ".", "i", "p", "y", "n", "b">>, 40,
               <<Cell(<<"x", " ", "y">>), BadCell, Cell(<<"z">>)>>),
          Notebook(<<"o", "k", ".", "i", "p", "y", "n", "b">>, 30,
               <<Cell(<<"u", "\n", "v">>)>>),
          Unreadable(Notebook(<<"b", "a", "d", ".", "i", "p", "y", "n", "b">>, 9,
               <<>>)),
          File(<<"d", "o", "c", ".", "p", "d", "f">>, 50, <<>>)>>)

\* the same file name in several directories, in two spellings
TreeTargets ==
    Dir(<<"p", "r", "o", "j">>,
        <<Dir(<<"S", "u", "b">>,
              <<File(<<"A", ".", "p", "y">>, 4, <<"x", " ", "y", "\n">>)>>),
          File(<<"a", ".", "p", "y">>, 3, <<"w", " ", "w">>),
          Dir(<<"t", "m", "p">>,
              <<File(<<"a", ".", "p", "y">>, 1, <<"t">>)>>),
          File(<<"x", ".", "b", "i", "n">>, 7, <<>>),
          Dir(<<"e", "n", "v">>,
              <<File(<<"a", ".", "p", "y">>, 2, <<"e", "\n">>)>>)>>)

\* a folder that cannot be listed itself
TreeLocked == LockedDir(<<"p", "r", "o", "j">>)

Trees ==
    {TreeExcluded, TreeNested, TreeSizes,
     TreeErrors, TreeNotebooks, TreeTargets, TreeLocked}

\* the lists given to set_exclusions
ExclusionLists ==
    {<<>>,
     <<<<"t", "m", "p">>>>,
     <<<<" ", "t", "m", "p", " ">>, <<" ">>>>,
     <<<<"S", "u", "b">>, <<"x", ".", "b", "i", "n">>>>}

\* the lists given to set_extensions
ExtensionLists ==
    {<<<<"p", "y">>, <<".", "P", "Y">>>>,
     <<<<" ", ".", "P", "Y", " ">>, <<"t", "x", "t">>, <<" ">>>>,
     <<<<"i", "p", "y", "n", "b">>, <<".", "b", "i", "n">>, <<"p", "d", "f">>>>,
     <<>>}

\* the lists given to build_targeted_context
TargetLists ==
    {<<>>,
     <<<<"a", ".", "p", "y">>>>,
     <<<<"s", "u", "b", "/", "A", ".", "P", "Y">>>>,
     <<<<".", "/", "S", "u", "b", "/", ".", ".", "/", "a", ".", "p", "y">>>>,
     <<<<"x", ".", "b", "i", "n">>, <<"n", "o", "t", "h", "e", "r", "e", ".", "p", "y">>>>,
     <<<<"n", ".", "i", "p", "y", "n", "b">>, <<"l", "o", "c", "k", "e", "d", "/", "a", ".", "p", "y">>>>}


(***************************************************************************)
(* The operations of the extractor on one folder, each a call from start   *)
(* to return.                                                              *)
(***************************************************************************)
set_extensions(extension_list) ==
    /\ extensions' = SetExtensions(extension_list)
    /\ UNCHANGED <<tree, exclusions, report, given>>
    /\ UNCHANGED <<appVars, utilVars>>

set_exclusions(names) ==
    /\ exclusions' = SetExclusions(names)
    /\ given' = [called |-> TRUE, names |-> names]
    /\ UNCHANGED <<tree, extensions, report>>
    /\ UNCHANGED <<appVars, utilVars>>

build_context(extract_content) ==
    /\ exclusions' = WithDefaults(exclusions)
    /\ report' = BuildContext(tree, extract_content, exclusions', extensions)
    /\ UNCHANGED <<tree, extensions, given>>
    /\ UNCHANGED <<appVars, utilVars>>

build_targeted_context(target_files) ==
    /\ exclusions' = WithDefaults(exclusions)
    /\ report' = BuildTargetedContext(tree, target_files, exclusions', extensions)
    /\ UNCHANGED <<tree, extensions, given>>
    /\ UNCHANGED <<appVars, utilVars>>

ExtractorInit ==
    /\ NewApp
    /\ tree \in Trees
    /\ NewExtractor
    /\ NewUtils

ExtractorNext ==
    \/ \E extension_list \in ExtensionLists : set_extensions(extension_list)
    \/ \E names \in ExclusionLists : set_exclusions(names)
    \/ \E extract_content \in BOOLEAN : build_context(extract_content)
    \/ \E target_files \in TargetLists : build_targeted_context(target_files)

SpecExtractor == ExtractorInit /\ [][ExtractorNext]_vars


(***************************************************************************)
(* Properties of the extractor, under SpecExtractor.                       *)
(***************************************************************************)
\* the components of an item_path below folder_path
Below(item_path) == SubSeq(item_path, Len(RootPath) + 1, Len(item_path))

NoExcludedPart(item_path, excl) ==
    \A i \in 1..Len(Below(item_path)) : Below(item_path)[i] \notin excl

\* a folder without the entries whose name is in excl
RECURSIVE PruneAll(_, _)
PruneAll(children, excl) ==
    IF children = <<>> THEN <<>>
    ELSE LET c == Head(children)
             rest == PruneAll(Tail(children), excl)
         IN  IF c.name \in excl THEN rest
             ELSE IF c.kind = "dir"
             THEN <<[c EXCEPT !.children = PruneAll(c.children, excl)]>> \o rest
             ELSE <<c>> \o rest

Prune(dir, excl) == [dir EXCEPT !.children = PruneAll(dir.children, excl)]

\* C11: a report of build_context has nothing of an entry whose name is in
\* the exclusion set of the call, baseline included, nor of anything below
\* such an entry: no structure line and no content block is about a path
\* with an excluded component, and the whole report, statistics included,
\* is the report of the folder from which these entries have been removed.
C11_ExcludedEntriesLeaveNoTrace ==
    report.op = "build_context" =>
        LET bare == BuildContext(Prune(tree, report.excl),
                                 report.extract_content, {}, report.exts)
        IN  /\ DEFAULT_EXCLUSIONS \subseteq report.excl
            /\ \A i \in 1..Len(report.listed) :
                    NoExcludedPart(report.listed[i], report.excl)
            /\ \A i \in 1..Len(report.opened) :
                    NoExcludedPart(report.opened[i], report.excl)
            /\ report.result = bare.result
            /\ report.stats = bare.stats

\* a full report of the folder that has a directory excluded by the
\* baseline, a file excluded by the baseline and a directory excluded by
\* the user
C11_Witness ==
    /\ report.op = "build_context"
    /\ report.extract_content
    /\ tree = TreeExcluded
    /\ <<"t", "m", "p">> \in report.excl
    /\ report.listed # <<>>
    /\ report.stats.size > 0

\* the names of a list given to set_exclusions: its entries without the
\* whitespace around them, the blank ones left out
UserNames(names) == {Strip(names[i]) : i \in 1..Len(names)} \ {<<>>}

\* C12: whatever calls came before, the exclusion set a traversal works with
\* is the baseline united with the names of the most recent set_exclusions
\* call, and the baseline alone when there was no such call: no baseline
\* entry is ever missing, and a user name absent from the most recent list
\* is gone.
C12_ExclusionsAreBaselinePlusLastList ==
    /\ [](WithDefaults(exclusions) = DEFAULT_EXCLUSIONS \cup UserNames(given.names))
    /\ [][report' # report =>
            report'.excl = DEFAULT_EXCLUSIONS \cup UserNames(given.names)]_vars

\* a traversal after set_exclusions was given a padded name and a blank one
C12_Witness ==
    /\ report.op = "build_context"
    /\ given.called
    /\ given.names = << <<" ", "t", "m", "p", " ">>, <<" ">> >>
    /\ report.excl = DEFAULT_EXCLUSIONS \cup {<<"t", "m", "p">>}
    /\ tree = TreeExcluded

\* an entry of a list given to set_extensions, as the allowlist is to hold
\* it: trimmed, in lower case, with a dot in front
Dotted(e) ==
    LET t == lower(Strip(e)) IN IF t[1] = "." THEN t ELSE <<".">> \o t

ExpectedAllowlist(extension_list) ==
    {Dotted(extension_list[i]) :
        i \in {j \in 1..Len(extension_list) : Strip(extension_list[j]) # <<>>}}

\* C13: set_extensions(L) leaves as allowlist exactly the non-blank entries
\* of L, trimmed, lower-cased and dot-prefixed where the dot is missing,
\* whatever the allowlist was before; what it leaves is a fixed point of
\* that normalisation, so the same list given again, or the allowlist given
\* back as a list, changes nothing.
C13_SetExtensionsReplaces ==
    [][\A extension_list \in ExtensionLists :
          set_extensions(extension_list) =>
              /\ extensions' = ExpectedAllowlist(extension_list)
              /\ \A e \in extensions' : Dotted(e) = e]_vars

\* the allowlist after the list (" .PY ", "txt", " ") was given: nothing of
\* the initial allowlist is left
C13_Witness ==
    /\ extensions = {<<".", "p", "y">>, <<".", "t", "x", "t">>}
    /\ extensions # DEFAULT_EXTENSIONS
    /\ report.op = "build_context"
    /\ report.exts = extensions

\* the paths of the files that a traversal of dir comes to: those not
\* excluded, in directories that can be listed and are not excluded
RECURSIVE ReachedFiles(_, _, _)
ReachedFiles(dir, folder_path, excl) ==
    IF ~dir.openable THEN {}
    ELSE UNION {LET c == dir.children[i]
                    item_path == Append(folder_path, c.name)
                IN  IF c.name \in excl THEN {}
                    ELSE IF c.kind = "dir" THEN ReachedFiles(c, item_path, excl)
                    ELSE {item_path}
                : i \in 1..Len(dir.children)}

IsListed(item_path) == \E i \in 1..Len(report.listed) : report.listed[i] = item_path

\* C14: in a report of build_context, a file the traversal comes to has a
\* structure line exactly when the lower-cased extension of its name is in
\* the allowlist, and the structure lines are the same with and without
\* content extraction.
C14_ListedIffExtensionAllowed ==
    report.op = "build_context" =>
        /\ \A item_path \in ReachedFiles(tree, RootPath, report.excl) :
              IsListed(item_path) <=>
                  lower(splitext(item_path[Len(item_path)])) \in report.exts
        /\ report.struct =
              BuildContext(tree, ~report.extract_content, report.excl,
                           report.exts).struct

\* a report with content of the folder that has B.PY, x.bin and Makefile
C14_Witness ==
    /\ report.op = "build_context"
    /\ report.extract_content
    /\ tree = TreeExcluded
    /\ report.exts = DEFAULT_EXTENSIONS
    /\ IsListed(RootPath \o << <<"B", ".", "P", "Y">> >>)
    /\ ~IsListed(RootPath \o << <<"x", ".", "b", "i", "n">> >>)
    /\ ~IsListed(RootPath \o << <<"M", "a", "k", "e", "f", "i", "l", "e">> >>)

\* the same folder listed by the file system in another order: every
\* listing reversed, or every listing rotated by one
RECURSIVE Relisted(_, _)
Relisted(entry, how) ==
    IF entry.kind # "dir" \/ entry.children = <<>> THEN entry
    ELSE LET n == Len(entry.children)
             moved == [i \in 1..n |->
                         IF how = "reversed" THEN entry.children[n + 1 - i]
                         ELSE entry.children[(i % n) + 1]]
         IN  [entry EXCEPT !.children = [i \in 1..n |-> Relisted(moved[i], how)]]

\* a comes before b in the order of the code points, character by character
Precedes(a, b) ==
    \E k \in 1..(Len(b)) :
        /\ \A i \in 1..(k - 1) : i <= Len(a) /\ a[i] = b[i]
        /\ \/ k = Len(a) + 1
           \/ k <= Len(a) /\ Code(a[k]) < Code(b[k])

Parent(item_path) == SubSeq(item_path, 1, Len(item_path) - 1)

\* C15: build_context without content is a function of the folder and of
\* the two sets: a second call right after the first returns the same
\* report; the report does not depend on the order in which the file
\* system lists a directory; and the entries of one directory come in the
\* lexicographic order of their names.
C15_StructureReportIsDeterministicAndSorted ==
    /\ [](report.op = "build_context" /\ ~report.extract_content =>
            /\ \A how \in {"reversed", "rotated"} :
                  BuildContext(Relisted(tree, how), FALSE, report.excl,
                               report.exts).result = report.result
            /\ \A i, j \in 1..Len(report.listed) :
                  i < j /\ Parent(report.listed[i]) = Parent(report.listed[j]) =>
                      Precedes(report.listed[i][Len(report.listed[i])],
                               report.listed[j][Len(report.listed[j])]))
    /\ [][/\ build_context(FALSE)
          /\ report.op = "build_context" /\ ~report.extract_content
          /\ report.excl = exclusions /\ report.exts = extensions
          => report' = report]_vars

\* a structure report of the folder whose directory Sub is listed by the
\* file system as b.py, in, a.py
C15_Witness ==
    /\ report.op = "build_context"
    /\ ~report.extract_content
    /\ tree = TreeNested
    /\ report.exts = DEFAULT_EXTENSIONS
    /\ listdir(Child(tree, <<"S", "u", "b">>))
         = << <<"b", ".", "p", "y">>, <<"i", "n">>, <<"a", ".", "p", "y">> >>
    /\ Len(report.listed) = 6

StatKeys == {"words", "lines", "characters", "tokens", "size"}

\* the statistics of one file of a report with content: nothing when the
\* file is not listed or cannot be measured, its size, and what its reader
\* counted when it is handed to the reader
OwnStats(file, exts) ==
    LET counted == extract_file_content(file, 0).stats IN
    IF lower(splitext(file.name)) \notin exts \/ ~file.statable THEN ZeroStats
    ELSE IF file.size > LargeFileLimit THEN [ZeroStats EXCEPT !.size = file.size]
    ELSE [words |-> counted.words, lines |-> counted.lines,
          characters |-> counted.characters, tokens |-> counted.tokens,
          size |-> file.size]

DirStats(dir, excl, exts) ==
    get_folder_structure_and_content(dir, <<>>, 0, TRUE, excl, exts).stats

\* what the child contributes to its directory
ChildStats(child, excl, exts) ==
    IF child.name \in excl THEN ZeroStats
    ELSE IF child.kind = "dir" THEN DirStats(child, excl, exts)
    ELSE OwnStats(child, exts)

RECURSIVE SumOfChildren(_, _, _, _, _)
SumOfChildren(dir, i, key, excl, exts) ==
    IF i > Len(dir.children) THEN 0
    ELSE ChildStats(dir.children[i], excl, exts)[key]
            + SumOfChildren(dir, i + 1, key, excl, exts)

\* the counters of dir and of every directory below it that the traversal
\* enters are the sums over the children
RECURSIVE AdditiveBelow(_, _, _)
AdditiveBelow(dir, excl, exts) ==
    \/ ~dir.openable /\ DirStats(dir, excl, exts) = ZeroStats
    \/ /\ dir.openable
       /\ \A key \in StatKeys :
            DirStats(dir, excl, exts)[key] = SumOfChildren(dir, 1, key, excl, exts)
       /\ \A i \in 1..Len(dir.children) :
            dir.children[i].kind = "dir" /\ dir.children[i].name \notin excl =>
                AdditiveBelow(dir.children[i], excl, exts)

\* C16: in a report with content, every counter (words, lines, characters,
\* tokens, size) of every directory is the sum of that counter over its
\* included children: a subdirectory's aggregate, a file's own statistics;
\* the statistics of the report are those of the root.
C16_StatisticsAreAdditive ==
    report.op = "build_context" /\ report.extract_content =>
        /\ report.stats = DirStats(tree, report.excl, report.exts)
        /\ AdditiveBelow(tree, report.excl, report.exts)

\* a report with content of the folder with two levels of directories and
\* four files, 15 bytes and 8 words in all
C16_Witness ==
    /\ report.op = "build_context"
    /\ report.extract_content
    /\ tree = TreeNested
    /\ report.exts = DEFAULT_EXTENSIONS
    /\ report.stats.size = 15
    /\ report.stats.words = 8
    /\ DirStats(Child(tree, <<"S", "u", "b">>), report.excl, report.exts).size = 12

\* the entry of the folder at a path below the root
RECURSIVE NodeAt(_, _)
NodeAt(dir, rel) ==
    IF Len(rel) = 1 THEN Child(dir, rel[1])
    ELSE NodeAt(Child(dir, rel[1]), Tail(rel))

\* the folder without the entry at a path below the root
RECURSIVE Without(_, _)
Without(dir, rel) ==
    [dir EXCEPT !.children =
        IF Len(rel) = 1
        THEN SelectSeq(dir.children, LAMBDA c : c.name # rel[1])
        ELSE [i \in 1..Len(dir.children) |->
                IF dir.children[i].name = rel[1]
                THEN Without(dir.children[i], Tail(rel))
                ELSE dir.children[i]]]

IsOpened(item_path) == \E i \in 1..Len(report.opened) : report.opened[i] = item_path

\* the content entry that follows the header of a file
HasHeader(item_path) ==
    \E i \in 1..Len(report.cont) :
        report.cont[i].kind = "\nFile: {item_path}" /\ report.cont[i].path = item_path

ContentOf(item_path) ==
    report.cont[1 + CHOOSE i \in 1..Len(report.cont) :
        report.cont[i].kind = "\nFile: {item_path}" /\ report.cont[i].path = item_path]

\* what the entry at item_path adds to the statistics of the report
Contribution(item_path) ==
    LET rest == DirStats(Without(tree, Below(item_path)), report.excl, report.exts)
    IN  [key \in StatKeys |-> report.stats[key] - rest[key]]

\* the files that are listed and can be measured
MeasuredFiles ==
    {item_path \in ReachedFiles(tree, RootPath, report.excl) :
        /\ lower(splitext(item_path[Len(item_path)])) \in report.exts
        /\ NodeAt(tree, Below(item_path)).statable}

\* C17: in a report with content, an allowed file of more than 102400 bytes
\* has its structure line, is not handed to a reader, has the too-large
\* placeholder as content, and adds its size to the size counter and
\* nothing to the other counters; an allowed file of 102400 bytes or fewer
\* is handed to its reader and has the reader's text as content.
C17_LargeFilesAreListedNotRead ==
    report.op = "build_context" /\ report.extract_content =>
        \A item_path \in MeasuredFiles :
            LET file == NodeAt(tree, Below(item_path)) IN
            /\ IsListed(item_path) /\ HasHeader(item_path)
            /\ file.size > 102400 =>
                /\ ~IsOpened(item_path)
                /\ ContentOf(item_path).kind = "[File too large to display]"
                /\ Contribution(item_path) = [ZeroStats EXCEPT !.size = file.size]
            /\ file.size <= 102400 =>
                /\ IsOpened(item_path)
                /\ ContentOf(item_path) = extract_file_content(file, Len(item_path) - 2).content
                /\ Contribution(item_path).size = file.size

\* a report with content of the folder with a text file of 102401 bytes and
\* one of 102400 bytes
C17_Witness ==
    /\ report.op = "build_context"
    /\ report.extract_content
    /\ tree = TreeSizes
    /\ report.exts = DEFAULT_EXTENSIONS
    /\ ~IsOpened(RootPath \o << <<"b", "i", "g", ".", "t", "x", "t">> >>)
    /\ IsOpened(RootPath \o << <<"e", "d", "g", "e", ".", "t", "x", "t">> >>)
    /\ report.stats.size = 102401 + 102400 + 2
    /\ report.stats.words = 3

\* the files, by their path relative to the root, that a target list
\* selects: those outside excluded names and directories whose normalised
\* relative path or bare name is, but for the case, a normalised target
Selected(target_files, excl) ==
    {rel \in ReachedFiles(tree, <<>>, excl) :
        \E i \in 1..Len(target_files) :
            \/ lower(normpath(target_files[i])) = lower(normpath(JoinPath(rel)))
            \/ lower(normpath(target_files[i])) = lower(rel[Len(rel)])}

\* the places of the report's content that are the header of rel
BlocksOf(rel) ==
    {i \in 1..Len(report.cont) :
        report.cont[i].kind = "\nFile: {rel_path}" /\ report.cont[i].path = rel}

\* C18: the content part of a targeted report has one block, and only one,
\* for each file outside excluded names and directories whose normalised
\* relative path or bare name equals, case-insensitively, a normalised
\* entry of the target list, and no other block; its structure lines are
\* those of the report without content of the same folder.
C18_TargetedContentIsTheSelection ==
    report.op = "build_targeted_context" =>
        LET selected == Selected(report.target_files, report.excl) IN
        /\ \A rel \in ReachedFiles(tree, <<>>, report.excl) :
              Cardinality(BlocksOf(rel)) = IF rel \in selected THEN 1 ELSE 0
        /\ Len(report.cont) = 2 * Cardinality(selected)
        /\ report.struct =
              BuildContext(tree, FALSE, report.excl, report.exts).struct

\* the target "a.py" in the folder that has a.py, Sub/A.py, tmp/a.py and
\* env/a.py, with tmp not excluded: three blocks
C18_Witness ==
    /\ report.op = "build_targeted_context"
    /\ tree = TreeTargets
    /\ report.target_files = << <<"a", ".", "p", "y">> >>
    /\ <<"t", "m", "p">> \notin report.excl
    /\ Len(report.cont) = 6
    /\ BlocksOf(<< <<"S", "u", "b">>, <<"A", ".", "p", "y">> >>) # {}

\* the paths of the directories that a traversal comes to and cannot list
RECURSIVE ReachedLocked(_, _, _)
ReachedLocked(dir, folder_path, excl) ==
    IF ~dir.openable THEN {folder_path}
    ELSE UNION {LET c == dir.children[i]
                    item_path == Append(folder_path, c.name)
                IN  IF c.name \in excl \/ c.kind # "dir" THEN {}
                    ELSE ReachedLocked(c, item_path, excl)
                : i \in 1..Len(dir.children)}

\* the entry at an item_path, the root included
EntryAt(item_path) ==
    IF item_path = RootPath THEN tree ELSE NodeAt(tree, Below(item_path))

Diagnostics ==
    {i \in 1..Len(report.struct) : report.struct[i].kind = "[Cannot open: {ex}]"}

\* the reader's placeholder for a file that it cannot read
IsReadError(entry) ==
    \/ entry.kind = "[Error reading text file: {e}]"
    \/ /\ entry.kind = "joined"
       /\ entry.lines[Len(entry.lines)].kind = "[Error reading ipynb: {e}]"

\* C19: build_context returns a report for every folder.  A directory that
\* cannot be listed gives one diagnostic structure line, one level below
\* its own line, no content and zero statistics, and the entries after it
\* are reported as ever; a listed file that cannot be measured, or cannot
\* be read, has a diagnostic as its content entry, and the files after it
\* have theirs.
C19_FailuresBecomeDiagnostics ==
    report.op = "build_context" =>
        LET locked == ReachedLocked(tree, RootPath, report.excl)
            files == {f \in ReachedFiles(tree, RootPath, report.excl) :
                        lower(splitext(f[Len(f)])) \in report.exts}
        IN  /\ Cardinality(Diagnostics) = Cardinality(locked)
            /\ \A d \in locked :
                  LET out == get_folder_structure_and_content(
                                EntryAt(d), d, Len(d) - 1,
                                report.extract_content, report.excl, report.exts)
                  IN  /\ out.struct = <<Line("[Cannot open: {ex}]", Len(d) - 1)>>
                      /\ out.cont = <<>>
                      /\ out.stats = ZeroStats
                      /\ \E i \in Diagnostics :
                            /\ report.struct[i].indent = Len(d) - 1
                            /\ d # RootPath =>
                                 report.struct[i - 1] =
                                    TextLine("{item}/", Len(d) - 2, d[Len(d)])
            /\ \A f \in files : IsListed(f)
            /\ report.extract_content =>
                  \A f \in files :
                      /\ HasHeader(f)
                      /\ ~EntryAt(f).statable =>
                            ContentOf(f) = Line("[Error reading file: {e}]", Len(f) - 2)
                      /\ EntryAt(f).statable /\ EntryAt(f).size <= LargeFileLimit
                            /\ ~EntryAt(f).readable =>
                            IsReadError(ContentOf(f))

\* a report with content of the folder that has two directories that
\* cannot be listed, a file that cannot be measured and one that cannot be
\* read, each followed by sound entries
C19_Witness ==
    /\ report.op = "build_context"
    /\ report.extract_content
    /\ tree = TreeErrors
    /\ report.exts = DEFAULT_EXTENSIONS
    /\ Cardinality(Diagnostics) = 2
    /\ IsOpened(RootPath \o << <<"z", ".", "t", "x", "t">> >>)
    /\ IsOpened(RootPath \o << <<"s", "u", "b">>, <<"a", ".", "p", "y">> >>)
    /\ report.stats.size = 10

\* C20: in a report with content, a file whose reader failed has the
\* reader's placeholder as content and adds nothing to the word, line,
\* character and token counters of the report, also when the reader had
\* processed a part of the file before it failed.
C20_FailedReaderAddsNothing ==
    report.op = "build_context" /\ report.extract_content =>
        \A item_path \in MeasuredFiles :
            LET file == NodeAt(tree, Below(item_path)) IN
            file.size <= LargeFileLimit /\ IsReadError(ContentOf(item_path)) =>
                Contribution(item_path) = [ZeroStats EXCEPT !.size = file.size]


\* every directory the traversal enters, dir included, has as many tokens
\* as words in its statistics, and so has every file in them, in what its
\* reader returns and in what it adds to its directory
RECURSIVE TokensAreWordsBelow(_, _, _)
TokensAreWordsBelow(dir, excl, exts) ==
    /\ DirStats(dir, excl, exts).tokens = DirStats(dir, excl, exts).words
    /\ dir.openable =>
        \A i \in 1..Len(dir.children) :
            LET c == dir.children[i] IN
            c.name \notin excl =>
                IF c.kind = "dir" THEN TokensAreWordsBelow(c, excl, exts)
                ELSE /\ extract_file_content(c, 0).stats.tokens
                            = extract_file_content(c, 0).stats.words
                     /\ OwnStats(c, exts).tokens = OwnStats(c, exts).words

\* C21: in the statistics of every report, full or targeted, and in those
\* of every directory and of every file below the folder, as the reader
\* returns them and as the traversal adds them, the token counter equals
\* the word counter.
C21_TokensEqualWords ==
    report.op # "none" =>
        /\ report.stats.tokens = report.stats.words
        /\ TokensAreWordsBelow(tree, report.excl, report.exts)
        /\ \A i \in 1..Len(report.opened) :
              LET counted == extract_file_content(EntryAt(report.opened[i]), 0).stats
              IN  counted.tokens = counted.words

\* a report with content of the folder with the notebooks: four words in
\* five characters and more, read from three cells
C21_Witness ==
    /\ report.op = "build_context"
    /\ report.extract_content
    /\ tree = TreeNotebooks
    /\ report.exts = DEFAULT_EXTENSIONS
    /\ Len(report.opened) >= 2
    /\ report.stats.words = 4
    /\ report.stats.characters > report.stats.words


(***************************************************************************)
(* human_readable_size on its own: a byte count is drawn, and the function *)
(* is called on it.                                                        *)
(***************************************************************************)
\* every byte count up to MaxBytes, and its multiples by the powers of 1024
\* up to 1024^MaxExp
MaxBytes == 2100
MaxExp == 5

\* the byte counts around 1024^2, and their multiples
AroundMega == {1048575, 1048576, 1048577}

SizeArguments ==
    {Bytes(mant, exp) : mant \in 0..MaxBytes, exp \in 0..MaxExp}
        \cup {Bytes(mant, exp) : mant \in AroundMega, exp \in 0..(MaxExp - 1)}

\* text = human_readable_size(num)
humanize ==
    /\ ~humanized.called
    /\ humanized' = [humanized EXCEPT
                        !.called = TRUE,
                        !.text = SizeText(human_readable_size(humanized.num))]
    /\ UNCHANGED <<appVars, exVars, code_worker>>

SizeInit ==
    /\ NewApp
    /\ tree = ProjectTree
    /\ NewExtractor
    /\ code_worker = NoCodeWorker
    /\ humanized \in {[NotHumanized EXCEPT !.num = num] : num \in SizeArguments}

SizeNext == humanize

SpecSize == SizeInit /\ [][SizeNext]_vars

\* num < 1024^j, for a byte count below 1024^3 times a power of 1024
BelowPow1024(num, j) ==
    \/ num.mant = 0
    \/ j > num.exp /\ (j - num.exp >= 3 \/ num.mant < Pow1024(j - num.exp))

\* the place, from 0, of the first unit in which num is below 1024, and 5
\* when there is none
UnitIndex(num) ==
    IF \E k \in 0..4 : BelowPow1024(num, k + 1)
    THEN CHOOSE k \in 0..4 :
            /\ BelowPow1024(num, k + 1)
            /\ \A j \in 0..(k - 1) : ~BelowPow1024(num, j + 1)
    ELSE 5

\* the numbers of tenths that are nearest to num / 1024^k
NearestTenths(num, k) ==
    LET n == IF num.mant = 0 THEN 0
             ELSE IF num.exp >= k THEN num.mant * Pow1024(num.exp - k)
             ELSE num.mant
        d == IF num.mant = 0 \/ num.exp >= k THEN 1 ELSE Pow1024(k - num.exp)
        below == (10 * n) \div d
    IN  {t \in {below, below + 1} :
            IF 10 * n >= t * d THEN 2 * (10 * n - t * d) <= d
            ELSE 2 * (t * d - 10 * n) <= d}

\* C22: the text returned for a byte count is the count divided by
\* 1024^k, to the nearest tenth and with one decimal place, then a blank
\* and the k-th of B, KB, MB, GB, TB, PB, where k is the first place at
\* which the quotient is below 1024, and the last place when there is
\* none; 0 gives "0.0 B", 1536 "1.5 KB", 1048576 "1.0 MB", and every count
\* below 1024 is in B.
C22_HumanReadableSize ==
    humanized.called =>
        LET num == humanized.num
            text == humanized.text
            k == UnitIndex(num)
            unit == <<"B", "KB", "MB", "GB", "TB", "PB">>[k + 1]
        IN  /\ \E t \in NearestTenths(num, k) :
                  text = SizeText([tenths |-> t, unit |-> unit])
            /\ text[Len(text) - Len(UnitText[unit])] = " "
            /\ text[Len(text) - Len(UnitText[unit]) - 2] = "."
            /\ num = Bytes(0, 0) => text = <<"0", ".", "0", " ", "B">>
            /\ num = Bytes(1536, 0) => text = <<"1", ".", "5", " ", "K", "B">>
            /\ num = Bytes(1048576, 0) => text = <<"1", ".", "0", " ", "M", "B">>
            /\ num.exp = 0 /\ num.mant < 1024 =>
                  SubSeq(text, Len(text) - 1, Len(text)) = <<" ", "B">>

\* 1024^2 bytes, given as 1024 times 1024, have been humanized
C22_Witness ==
    /\ humanized.called
    /\ humanized.num = Bytes(1024, 1)
    /\ humanized.text = <<"1", ".", "0", " ", "M", "B">>


\* C23: a step of the extractor that is not a call of set_extensions or of
\* set_exclusions leaves self.extensions and self.exclusions as they were:
\* build_context and build_targeted_context change neither of the two sets.
C23_OnlySettersChangeTheSets ==
    [][(\/ \E extract_content \in BOOLEAN : build_context(extract_content)
        \/ \E target_files \in TargetLists : build_targeted_context(target_files))
       => /\ extensions' = extensions
          /\ exclusions' = exclusions]_vars


(***************************************************************************)
(* Further properties of the controller, under Spec.                       *)
(***************************************************************************)
\* the reports that send_to_worker is given: the structure-only report, or
\* a targeted report
IsChosenContext(ctx) ==
    \/ ctx = StructureOnly
    \/ \E targets \in SUBSET {ProjectFiles[i] : i \in 1..Len(ProjectFiles)} :
          ctx = <<"FOLDER STRUCTURE (Full):">> \o ProjectFiles
                    \o <<"SELECTED RELEVANT FILE CONTENTS">>
                    \o SelectSeq(ProjectFiles, LAMBDA f : f \in targets)

\* C24: the messages of every call of the main model are one system
\* message that embeds the report chosen, then the history as it is when
\* send_to_worker builds them, and no other system message; their last
\* message is the user turn with the prompt of the query the call belongs
\* to; the history never holds a system message.
C24_MainCallIsSystemThenHistory ==
    /\ [](/\ \A i \in 1..Len(chat_history) : chat_history[i].role # "system"
          /\ \A w \in workers :
                IsMainCall(w) =>
                    /\ w.msgs # <<>>
                    /\ w.msgs[1].role = "system"
                    /\ \E ctx \in {SubSeq(w.msgs[1].content, 2, Len(w.msgs[1].content))} :
                          /\ IsChosenContext(ctx)
                          /\ w.msgs[1] = SystemMsg(ctx)
                    /\ \A i \in 2..Len(w.msgs) : w.msgs[i].role # "system"
                    /\ Len(w.msgs) >= 2
                    /\ w.msgs[Len(w.msgs)] = Msg("user", <<Question(w.q)>>))
    /\ [][Entered("send_msg") =>
            Tail(stack'[Len(stack')].msgs) = chat_history']_vars


(***************************************************************************)
(* CodeExecutionWorker.run, src/utils.py:127-158, one step per statement   *)
(* that can fail.                                                          *)
(***************************************************************************)
TimeoutText ==
    "Execution Error: Code execution exceeded the 15-second timeout limit."

\* f"Subprocess error: {e}\n{traceback.format_exc()}"
SubprocessErrorText == "Subprocess error: {e}\n{traceback}"

TempName == "tmp.py"

Scripts ==
    {Script("print('hi')", TRUE, FALSE, TRUE, "hi\n", ""),
     Script("import sys; sys.stderr.write('oops'); sys.exit(3)",
            TRUE, FALSE, TRUE, "", "oops"),
     Script("", TRUE, FALSE, TRUE, "", ""),
     Script("while True: pass", TRUE, FALSE, FALSE, "", ""),
     Script("print('\\ud800')", FALSE, FALSE, TRUE, "", ""),
     Script("x = '...'  # 20000 characters", TRUE, TRUE, TRUE, "", "")}

Hosts ==
    {Host(tempdir, space, interpreter) :
        tempdir \in BOOLEAN, space \in BOOLEAN, interpreter \in BOOLEAN}

\* the except clauses, src/utils.py:149-152, lead to the finally clause
Caught(text) ==
    code_worker' = [code_worker EXCEPT !.stderr = text, !.pc = "finally"]

\* tempfile.NamedTemporaryFile(suffix=".py", delete=False, ...),
\* src/utils.py:134
open_temporary_file ==
    /\ code_worker.pc = "run"
    /\ IF code_worker.host.tempdir
       THEN code_worker' = [code_worker EXCEPT !.on_disk = TRUE, !.pc = "write"]
       ELSE Caught(SubprocessErrorText)
    /\ UNCHANGED <<appVars, exVars, humanized>>

\* f.write(self.code_to_execute); filepath = f.name; and the end of the
\* with block, which closes the file: src/utils.py:135-136.  The text is
\* encoded by write; a text shorter than the buffer reaches the disk when
\* the file is closed.
write_code ==
    LET code == code_worker.code_to_execute
        host == code_worker.host
    IN
    /\ code_worker.pc = "write"
    /\ IF ~code.encodable \/ (code.long /\ ~host.space)
       THEN Caught(SubprocessErrorText)
       ELSE IF ~host.space
       THEN code_worker' = [code_worker EXCEPT !.filepath = TempName,
                                               !.stderr = SubprocessErrorText,
                                               !.pc = "finally"]
       ELSE code_worker' = [code_worker EXCEPT !.filepath = TempName,
                                               !.pc = "subprocess"]
    /\ UNCHANGED <<appVars, exVars, humanized>>

\* subprocess.run([sys.executable, filepath], ..., timeout=15),
\* src/utils.py:139-147
subprocess_run ==
    LET code == code_worker.code_to_execute IN
    /\ code_worker.pc = "subprocess"
    /\ IF ~code_worker.host.interpreter THEN Caught(SubprocessErrorText)
       ELSE IF ~code.ends THEN Caught(TimeoutText)
       ELSE code_worker' = [code_worker EXCEPT !.stdout = code.out,
                                               !.stderr = code.err,
                                               !.pc = "finally"]
    /\ UNCHANGED <<appVars, exVars, humanized>>

\* finally: if filepath and os.path.exists(filepath): os.unlink(filepath),
\* src/utils.py:153-156
cleanup ==
    /\ code_worker.pc = "finally"
    /\ code_worker' =
          [code_worker EXCEPT
              !.on_disk = IF code_worker.filepath # "" /\ code_worker.on_disk
                          THEN FALSE ELSE @,
              !.pc = "emit"]
    /\ UNCHANGED <<appVars, exVars, humanized>>

\* self.finished.emit(stdout, stderr), src/utils.py:158; run returns
emit_finished ==
    /\ code_worker.pc = "emit"
    /\ code_worker' =
          [code_worker EXCEPT
              !.emitted = Append(@, <<code_worker.stdout, code_worker.stderr>>),
              !.pc = "done"]
    /\ UNCHANGED <<appVars, exVars, humanized>>

ExecInit ==
    /\ NewApp
    /\ tree = ProjectTree
    /\ NewExtractor
    /\ humanized = NotHumanized
    /\ code_worker \in {NewCodeWorker(code_to_execute, host) :
                            code_to_execute \in Scripts, host \in Hosts}

ExecNext ==
    \/ open_temporary_file
    \/ write_code
    \/ subprocess_run
    \/ cleanup
    \/ emit_finished

SpecExec == ExecInit /\ [][ExecNext]_vars

\* C25: when run has returned, the temporary file does not exist, whatever
\* the path run took (the script ran to its end, it ran into the timeout,
\* the file could not be created or written, the interpreter could not be
\* started), and finished has been emitted once and was not emitted before
\* the file was dealt with; a script that does not end gives the timeout
\* text as stderr and an empty stdout.
C25_TemporaryFileIsRemoved ==
    /\ Len(code_worker.emitted) <= 1
    /\ code_worker.emitted # <<>> => code_worker.pc = "done"
    /\ code_worker.pc = "done" =>
          /\ ~code_worker.on_disk
          /\ Len(code_worker.emitted) = 1
          /\ (/\ code_worker.filepath # ""
              /\ code_worker.host.space /\ code_worker.host.interpreter
              /\ ~code_worker.code_to_execute.ends)
                => code_worker.emitted[1] = <<"", TimeoutText>>


(***************************************************************************)
(* The queries of a user who has loaded a project and leaves the other     *)
(* buttons alone.  The event loop runs a handler that can go on, and the   *)
(* thread of a model call ends and its signal is delivered; nothing makes  *)
(* the user ask.                                                           *)
(***************************************************************************)
\* the state after select_folder and reload_context on a new window
LoadedApp ==
    /\ chat_history = <<>>
    /\ loaded_context = StructureOnly
    /\ loaded_path \in ProjectFolders
    /\ gpt_worker = 0
    /\ current_query_attempt = 0
    /\ current_user_prompt = <<>>
    /\ is_smart_filtering = FALSE
    /\ askEnabled = TRUE
    /\ ctrlEnabled = TRUE
    /\ workers = {}
    /\ nQueries = 0
    /\ nShown = 0
    /\ stack = <<>>
    /\ crashed = ""

QueryInit ==
    /\ LoadedApp
    /\ tree = ProjectTree
    /\ NewExtractor
    /\ NewUtils

\* the handler that is running goes on after its message
HandlerStep ==
    \/ ask_gpt_show
    \/ execute_smart_query_step
    \/ send_to_worker
    \/ filter_fallback
    \/ filter_build_context
    \/ filter_context_error
    \/ gpt_retry
    \/ gpt_accept

\* the finished signal of a model call is delivered with the reply
FilterReply == \E w \in workers, r \in SelectorReplies : on_filter_response(w, r)
MainReply == \E w \in workers, r \in MainReplies : on_gpt_response(w, r)

QueryNext ==
    \/ \E text \in PromptInputs(nQueries), show \in BOOLEAN : ask_gpt(text, show)
          /\ UNCHANGED <<exVars, utilVars>>
    \/ HandlerStep /\ UNCHANGED <<exVars, utilVars>>
    \/ FilterReply /\ UNCHANGED <<exVars, utilVars>>
    \/ MainReply /\ UNCHANGED <<exVars, utilVars>>

SpecQuery ==
    /\ QueryInit
    /\ [][QueryNext]_vars
    /\ WF_vars(HandlerStep /\ UNCHANGED <<exVars, utilVars>>)
    /\ WF_vars(FilterReply /\ UNCHANGED <<exVars, utilVars>>)
    /\ WF_vars(MainReply /\ UNCHANGED <<exVars, utilVars>>)

\* C26: whenever Ask is disabled, it is enabled again later: a query that
\* was started in API mode comes to its end, whatever the selector and the
\* main model reply and whatever targeted extraction does, provided every
\* model call completes.
C26_QueryReturnsToIdle == (~askEnabled) ~> askEnabled


\* C27: while the process runs, self.current_query_attempt is one of 0, 1,
\* 2, 3, 4, and it is 0 as long as no query was started in API mode; a step
\* that changes it either starts a query in API mode and sets it to 1, or
\* adds 1 to it.
C27_AttemptStaysWithinRange ==
    /\ [](/\ current_query_attempt \in 0..4
          /\ nQueries = 0 /\ crashed = "" => current_query_attempt = 0)
    /\ [][crashed' = "" /\ current_query_attempt' # current_query_attempt =>
            \/ nQueries' = nQueries + 1 /\ current_query_attempt' = 1
            \/ current_query_attempt' = current_query_attempt + 1]_vars


(***************************************************************************)
(* C28.  A rate-limit error on the call of the selector is not treated as  *)
(* a rate limit.  When the reply of the selector is the text of a 429 API  *)
(* error, the slot leaves the attempt counter as it is and shows the       *)
(* parse-failure message, never the rate-limit message; the handler then   *)
(* goes on to a call of the main model with the structure-only report, the *)
(* counter still unchanged.  The rate-limit message is entered only on a   *)
(* reply of the main model.                                                *)
(***************************************************************************)
C28_SelectorRateLimitIsParseFailure ==
    [][ /\ \A w \in workers \ workers' :
             \A r \in {x \in SelectorReplies : HasRateLimit(x)} :
                on_filter_response(w, r) =>
                   /\ Entered("parse_err_msg")
                   /\ stack'[Len(stack')].resp = r
                   /\ NewWorkers = {}
                   /\ UNCHANGED <<current_query_attempt, askEnabled>>
        /\ Resumed("parse_err_msg") /\ HasRateLimit(Top.resp) =>
             LET next == stack'[Len(stack')]
             IN /\ Entered("send_msg")
                /\ UNCHANGED current_query_attempt
                /\ next.q = Top.q
                /\ next.level = "structure"
                /\ ContextOf(next.msgs) = SystemMsg(StructureOnly)
        /\ Entered("rate_msg") =>
             \E w \in workers \ workers' : IsMainCall(w)
      ]_vars

\* the message of the parse failure is on the screen for a selector reply
\* that is the text of a 429 error, the counter at its first attempt
C28_Witness ==
    /\ crashed = "" /\ stack # <<>>
    /\ Top.pc = "parse_err_msg"
    /\ HasRateLimit(Top.resp)
    /\ current_query_attempt = 1
    /\ \A i \in 1..Len(stack) : stack[i].pc # "rate_msg"


(***************************************************************************)
(* C29.  In every reachable state the history holds only user turns and    *)
(* assistant turns that alternate strictly, the first a user turn: the     *)
(* turns at odd places are user turns and those at even places assistant   *)
(* turns.  Every call of the main model in flight then carries, after the  *)
(* system message, a history that ends with one user turn that has no      *)
(* answer.                                                                 *)
(***************************************************************************)
Alternates(history) ==
    \A i \in 1..Len(history) :
       history[i].role = IF i % 2 = 1 THEN "user" ELSE "assistant"

C29_HistoryAlternates ==
    /\ Alternates(chat_history)
    /\ \A w \in workers :
          IsMainCall(w) =>
             /\ Alternates(Tail(w.msgs))
             /\ Len(Tail(w.msgs)) % 2 = 1


(***************************************************************************)
(* C30.  Targeted extraction emits no content for a file that the          *)
(* structure report does not list: in a report of build_targeted_context   *)
(* every file that has a content block has its lower-cased extension in    *)
(* the allowlist of the call and a line in the structure part of the same  *)
(* report.                                                                 *)
(***************************************************************************)
C30_TargetedContentIsListed ==
    report.op = "build_targeted_context" =>
        \A i \in 1..Len(report.opened) :
           LET item_path == report.opened[i] IN
           /\ BlocksOf(Below(item_path)) # {}
           /\ Allowed(item_path[Len(item_path)], report.exts)
           /\ IsListed(item_path)

=============================================================================
